---- MODULE Spec2Model ----
(***************************************************************************)
(* A model of the MusicBrainz MCP server's request governor:               *)
(*   - MusicBrainzClient (musicbrainz_client.py): parameter validation,    *)
(*     the lock-protected rate limiter, the HTTP GET and the mapping of    *)
(*     its outcome to the exception taxonomy;                              *)
(*   - the process-wide client lifecycle of server.py (get_client,         *)
(*     configure_client_from_env, cleanup, ConfigurationMiddleware).       *)
(* Time is counted in ticks; OneSecond ticks make one second.  Strings     *)
(* that the code inspects character by character (queries, MBIDs, the      *)
(* Retry-After header) are sequences of one-character strings.  An         *)
(* Optional value is a sequence of length 0 (None) or 1.                   *)
(* asyncio is cooperative: an action is the code a task runs between two   *)
(* suspension points.                                                      *)
(***************************************************************************)
EXTENDS Integers, Sequences, FiniteSets, TLC

\* ---------------------------------------------------------------- bounds
NumTasks == 2
MaxOps == 3
MaxGets == 3
MaxTicks == 5
MaxClients == 3

\* ------------------------------------------------------ program constants
\* the literal 1.0 (one second) of min_interval = 1.0 / rate_limit, in ticks
OneSecond == 2
\* MUSICBRAINZ_RATE_LIMIT default "1.0"
DefaultRateLimit == 1
\* MUSICBRAINZ_TIMEOUT default "30.0"
DefaultTimeout == 30
DefaultUserAgent == "SmitheryMusicBrainz/1.1.0"
\* MusicBrainzClient.DEFAULT_USER_AGENT, used when user_agent is falsy
ClientDefaultUserAgent == "MusicBrainzMCP/0.1.0"

Tasks == 1..NumTasks
ClientIds == 1..MaxClients
\* time.time() is seconds since the epoch: far beyond any min_interval
EpochStart == 2 * OneSecond
EndOfTime == EpochStart + MaxTicks

None == <<>>
Some(x) == <<x>>

\* ------------------------------------------------------------- strings
\* str.strip() / str.isspace(): the ASCII whitespace characters
PyWhitespace == {" ", "\t", "\n", "\r"}

RECURSIVE PyLStrip(_)
PyLStrip(s) ==
    IF s # <<>> /\ Head(s) \in PyWhitespace THEN PyLStrip(Tail(s)) ELSE s

RECURSIVE PyRStrip(_)
PyRStrip(s) ==
    IF s # <<>> /\ s[Len(s)] \in PyWhitespace
    THEN PyRStrip(SubSeq(s, 1, Len(s) - 1))
    ELSE s

PyStrip(s) == PyRStrip(PyLStrip(s))

DigitChars == <<"0", "1", "2", "3", "4", "5", "6", "7", "8", "9">>
IsDigit(ch) == \E i \in 1..10 : DigitChars[i] = ch
DigitVal(ch) == (CHOOSE i \in 1..10 : DigitChars[i] = ch) - 1

RECURSIVE DigitsValue(_, _)
DigitsValue(s, acc) ==
    IF s = <<>> THEN acc
    ELSE IF Head(s) = "_" THEN DigitsValue(Tail(s), acc)
    ELSE DigitsValue(Tail(s), 10 * acc + DigitVal(Head(s)))

\* int(str): surrounding whitespace, an optional sign, decimal digits that
\* single underscores may separate.  None stands for ValueError.
PyInt(s) ==
    LET t == PyStrip(s)
        signed == t # <<>> /\ Head(t) \in {"+", "-"}
        body == IF signed THEN Tail(t) ELSE t
        wellFormed ==
            /\ body # <<>>
            /\ IsDigit(body[1]) /\ IsDigit(body[Len(body)])
            /\ \A i \in 1..Len(body) : IsDigit(body[i]) \/ body[i] = "_"
            /\ \A i \in 1..(Len(body) - 1) : ~(body[i] = "_" /\ body[i + 1] = "_")
    IN  IF ~wellFormed THEN None
        ELSE IF signed /\ Head(t) = "-" THEN Some(0 - DigitsValue(body, 0))
        ELSE Some(DigitsValue(body, 0))

\* ------------------------------------------------------------- MBIDs
HexChars == {"0", "1", "2", "3", "4", "5", "6", "7", "8", "9",
             "a", "b", "c", "d", "e", "f", "A", "B", "C", "D", "E", "F"}

IsHexRun(s, from, to) == \A i \in from..to : s[i] \in HexChars

\* 8-4-4-4-12 hexadecimal digits separated by hyphens, over positions 1..36
MbidBody(s) ==
    /\ Len(s) >= 36
    /\ IsHexRun(s, 1, 8) /\ s[9] = "-"
    /\ IsHexRun(s, 10, 13) /\ s[14] = "-"
    /\ IsHexRun(s, 15, 18) /\ s[19] = "-"
    /\ IsHexRun(s, 20, 23) /\ s[24] = "-"
    /\ IsHexRun(s, 25, 36)

\* uuid_pattern.match(mbid) with re.IGNORECASE.  Python's "$" matches at the
\* end of the string and also just before a newline that ends the string.
MbidPatternMatch(s) ==
    /\ MbidBody(s)
    /\ \/ Len(s) = 36
       \/ Len(s) = 37 /\ s[37] = "\n"

\* _validate_mbid: TRUE iff it raises MusicBrainzValidationError
ValidateMbidRaises(mbid) == ~MbidPatternMatch(mbid)

\* ------------------------------------------------- parameter validation
SearchOps == {"search_artist", "search_release", "search_recording",
              "search_release_group"}
LookupOps == {"lookup_artist", "lookup_release", "lookup_recording",
              "lookup_release_group"}
BrowseOps == {"browse_artist_releases", "browse_artist_recordings"}
GenericOps == {"lookup_by_mbid"}
AllOps == SearchOps \cup LookupOps \cup BrowseOps \cup GenericOps

\* valid_types of lookup_by_mbid
ValidTypes == {"artist", "release", "recording", "release-group", "label",
               "work", "area", "place", "event", "instrument", "series", "url"}

\* if not query.strip()
QueryEmpty(query) == PyStrip(query) = <<>>

\* if limit < 1 or limit > 100
LimitOutOfRange(limit) == limit < 1 \/ limit > 100

\* if offset < 0
OffsetNegative(offset) == offset < 0

\* TRUE iff the entry point raises MusicBrainzValidationError before it
\* reaches _make_request
ValidationRaises(req) ==
    CASE req.op \in SearchOps ->
            QueryEmpty(req.query) \/ LimitOutOfRange(req.limit)
                \/ OffsetNegative(req.offset)
      [] req.op \in LookupOps -> ValidateMbidRaises(req.mbid)
      [] req.op \in BrowseOps ->
            ValidateMbidRaises(req.mbid) \/ LimitOutOfRange(req.limit)
                \/ OffsetNegative(req.offset)
      [] req.op \in GenericOps ->
            req.entity_type \notin ValidTypes \/ ValidateMbidRaises(req.mbid)

\* ---------------------------------------------------- exception taxonomy
\* the exception classes of exceptions.py that a client call may raise
Taxonomy == {"ValidationError", "BadRequestError", "NotFoundError",
             "RateLimitError", "TimeoutError", "ConnectionError", "APIError"}
\* isinstance(e, (MusicBrainzAPIError, MusicBrainzValidationError))
ReRaised == {"APIError", "RateLimitError", "NotFoundError", "BadRequestError",
             "ValidationError"}

\* an exception: its class, status_code and retry_after (both Optional)
Exc(kind, status, retry_after) ==
    [kind |-> kind, status |-> status, retry_after |-> retry_after]
\* the payload of a response whose body is not looked at
DefaultPayload == "{}"
\* return response.json(): the call returns payload
ReturnedPayload(payload) ==
    [kind |-> "ok", status |-> None, retry_after |-> None, payload |-> payload]
\* a returned payload
Returned == ReturnedPayload(DefaultPayload)
NoResult == [kind |-> "none", status |-> None, retry_after |-> None]

\* retry_seconds = int(retry_after) if retry_after else None.
\* header: None, or Some(the header's characters).  The result is
\* Some(retry_seconds) (itself Optional), or None when int() raises ValueError.
RetrySeconds(header) ==
    IF header = None \/ header[1] = <<>> THEN Some(None)
    ELSE LET n == PyInt(header[1])
         IN  IF n = None THEN None ELSE Some(n)

HandleHttpErrorAsValidation(status, header) ==
    IF status = 400 THEN Exc("ValidationError", None, None)
    ELSE IF status = 404 THEN Exc("NotFoundError", Some(404), None)
    ELSE IF status = 503 THEN Exc("RateLimitError", Some(503), None)
    ELSE Exc("APIError", Some(status), None)
\* _handle_http_error: the exception it raises for a response
HandleHttpError(status, header) ==
    IF status = 400 THEN Exc("BadRequestError", Some(400), None)
    ELSE IF status = 404 THEN Exc("NotFoundError", Some(404), None)
    ELSE IF status = 503 THEN
        LET rs == RetrySeconds(header)
        IN  IF rs = None THEN Exc("ValueError", None, None)
            ELSE Exc("RateLimitError", Some(503), rs[1])
    ELSE Exc("APIError", Some(status), None)

\* response.is_success
IsSuccess(status) == status >= 200 /\ status <= 299

\* an unexpected exception passed on unwrapped
WrapUnexpectedAsIs(e) == e

\* the last handler of _make_request: taxonomy errors pass, anything else is
\* wrapped as MusicBrainzAPIError with status_code 0
WrapUnexpected(e) ==
    IF e.kind \in ReRaised THEN e ELSE Exc("APIError", Some(0), None)

\* What _make_request returns or raises for the outcome of self._client.get:
\* a response (status, Retry-After header, whether the body parses as
\* JSON) or a transport exception.
RequestResult(out) ==
    CASE out.type = "timeout" -> Exc("TimeoutError", None, None)
      [] out.type = "connect_error" -> Exc("ConnectionError", None, None)
      [] out.type = "other_exception" -> WrapUnexpected(Exc("Exception", None, None))
      [] out.type = "response" ->
            IF IsSuccess(out.status)
            THEN IF out.json_ok THEN ReturnedPayload(out.payload)
                 ELSE WrapUnexpected(Exc("JSONDecodeError", None, None))
            ELSE WrapUnexpected(HandleHttpError(out.status, out.retry_after))

\* self._client.get on a connection that is None (AttributeError) or closed
\* (RuntimeError), inside the try block
NoConnectionResult == WrapUnexpected(Exc("AttributeError", None, None))

\* ------------------------------------------------------------ the state
VARIABLES
    now,            \* time.time(), in ticks
    built,          \* built[c]: client object c has been constructed
    client,         \* client[c]: user_agent, rate_limit, timeout of object c
    conn,           \* conn[c]: self._client: "none", "open", or "closed"
    last,           \* last[c]: self._last_request_time
    lockHolder,     \* lockHolder[c]: task holding self._rate_limit_lock, or 0
    lockWaiters,    \* lockWaiters[c]: tasks queued on the lock, first in front
    acloses,        \* acloses[c]: connections of c released by aclose()
    opens,          \* opens[c]: connections created for c
    mclient,        \* server._client: a client object, or 0 for None
    current_config, \* server._current_config (Optional)
    client_config,  \* server._client_config (Optional)
    pc,             \* pc[t]: where task t is suspended
    held,           \* held[t]: the client object task t works with, or 0
    wake,           \* wake[t]: earliest end of t's asyncio.sleep
    req,            \* req[t]: the call task t made last
    result,         \* result[t]: what that call returned or raised
    ops,            \* client calls started so far, by all tasks
    gc,             \* gc[t]: locals of t's suspended get_client
    gets,           \* get_client calls made so far, by all tasks
    grantLog,       \* grantLog[c]: values _rate_limit wrote to last[c]
    getLog,         \* the last two GETs of the process: <<time, client>>
    closes_at_call, \* closes_at_call[t]: acloses of the client when t's call began
    cache,          \* CacheUtils._cache: cache[k] is the entry of key k, or None
    default_ttl,    \* CacheUtils._default_ttl, in ticks
    cret,           \* the cache operation made last and what it returned
    env,            \* os.environ: MUSICBRAINZ_USER_AGENT, _RATE_LIMIT, _TIMEOUT
    ucall           \* the MBIDUtils call made last: function, argument, outcome

clientVars == <<built, client, conn, last, lockHolder, lockWaiters, acloses, opens>>
managerVars == <<mclient, current_config, client_config>>
taskVars == <<pc, held, wake, req, result, ops, gc, gets>>
logVars == <<grantLog, getLog, closes_at_call>>
cacheVars == <<cache, default_ttl, cret>>
vars == <<now, clientVars, managerVars, taskVars, logVars, cacheVars, env, ucall>>

NewClientAsGiven(user_agent, rate_limit, timeout) ==
    [user_agent |-> IF user_agent = None THEN "" ELSE user_agent[1],
     rate_limit |-> rate_limit,
     timeout |-> timeout]
\* MusicBrainzClient.__init__; user_agent is None or Some(string), and
\* user_agent or DEFAULT_USER_AGENT falls back for None and for ""
NewClient(user_agent, rate_limit, timeout) ==
    [user_agent |-> IF user_agent = None \/ user_agent = Some("")
                    THEN ClientDefaultUserAgent ELSE user_agent[1],
     rate_limit |-> rate_limit,
     timeout |-> timeout]

\* locals of a get_client suspended in close(): effective_config and the
\* client being closed
NoGc == [eff |-> None, old |-> 0]

\* ------------------------------------------------------ the rate limiter
\* min_interval = 1.0 / self.rate_limit (rate_limit # 0)
MinInterval(rate_limit) ==
    IF rate_limit > 0 THEN OneSecond \div rate_limit
    ELSE 0 - (OneSecond \div (0 - rate_limit))

NeedsSleepLate(time_since_last, min_interval) == time_since_last + 1 < min_interval
\* if time_since_last < min_interval
NeedsSleep(time_since_last, min_interval) == time_since_last < min_interval

SleepTimeWholeInterval(time_since_last, min_interval) == min_interval
\* sleep_time = min_interval - time_since_last
SleepTime(time_since_last, min_interval) == min_interval - time_since_last

LockFreeAlways(c) == TRUE
\* asyncio.Lock.acquire returns at once iff the lock is not held
LockFree(c) == lockHolder[c] = 0

NextHolderNobody(c) == 0
\* asyncio.Lock.release wakes the first waiter, which then holds the lock
NextHolder(c) == IF lockWaiters[c] = <<>> THEN 0 ELSE Head(lockWaiters[c])

PcAfterRelease(t, c, newpc) ==
    [u \in Tasks |-> IF u = t THEN newpc
                     ELSE IF u = NextHolder(c) THEN "locked"
                     ELSE pc[u]]

ReleaseLock(c) ==
    /\ lockHolder' = [lockHolder EXCEPT ![c] = NextHolder(c)]
    /\ lockWaiters' = [lockWaiters EXCEPT ![c] =
                          IF lockWaiters[c] = <<>> THEN <<>> ELSE Tail(lockWaiters[c])]

\* the most recent two entries of a log
Window(log) == IF Len(log) > 2 THEN Tail(log) ELSE log

\* lines 110 and 166-176: the permit is written, the lock released and,
\* with no suspension in between, the GET issued on connection state cn
GrantAndGet(t, c, cn) ==
    /\ last' = [last EXCEPT ![c] = now]
    /\ grantLog' = [grantLog EXCEPT ![c] = Append(@, now)]
    /\ ReleaseLock(c)
    /\ wake' = [wake EXCEPT ![t] = 0]
    /\ IF cn = "open"
       THEN /\ getLog' = Window(Append(getLog, <<now, c>>))
            /\ pc' = PcAfterRelease(t, c, "in_flight")
            /\ result' = result
       ELSE /\ getLog' = getLog
            /\ pc' = PcAfterRelease(t, c, "idle")
            /\ result' = [result EXCEPT ![t] = NoConnectionResult]

\* lines 101-110, run by task t holding the lock of c
RateLimitBody(t, c, cn) ==
    IF client[c].rate_limit = 0
    THEN \* ZeroDivisionError leaves through the async with, outside the try
         /\ ReleaseLock(c)
         /\ pc' = PcAfterRelease(t, c, "idle")
         /\ result' = [result EXCEPT ![t] = Exc("ZeroDivisionError", None, None)]
         /\ UNCHANGED <<last, grantLog, getLog, wake>>
    ELSE IF NeedsSleep(now - last[c], MinInterval(client[c].rate_limit))
    THEN /\ lockHolder' = [lockHolder EXCEPT ![c] = t]
         /\ wake' = [wake EXCEPT ![t] =
                now + SleepTime(now - last[c], MinInterval(client[c].rate_limit))]
         /\ pc' = [pc EXCEPT ![t] = "sleeping"]
         /\ UNCHANGED <<last, grantLog, getLog, lockWaiters, result>>
    ELSE GrantAndGet(t, c, cn)

EnsuredConnNever(c) == conn[c]
\* _ensure_client: a connection is created iff self._client is None
EnsuredConn(c) == IF conn[c] = "none" THEN "open" ELSE conn[c]

\* One call of a client method by task t on the client it holds, up to its
\* first suspension: validation, _ensure_client, then _rate_limit.
Call(t, r) ==
    /\ pc[t] = "idle" /\ ops < MaxOps /\ held[t] # 0
    /\ ops' = ops + 1
    /\ req' = [req EXCEPT ![t] = r]
    /\ LET c == held[t] IN
       IF ValidationRaises(r)
       THEN /\ result' = [result EXCEPT ![t] = Exc("ValidationError", None, None)]
            /\ UNCHANGED <<now, env, ucall, cacheVars, clientVars, managerVars, pc, held, wake, gc, gets,
                           logVars>>
       ELSE /\ conn' = [conn EXCEPT ![c] = EnsuredConn(c)]
            /\ opens' = [opens EXCEPT ![c] = IF conn[c] = "none" THEN @ + 1 ELSE @]
            /\ closes_at_call' = [closes_at_call EXCEPT ![t] = acloses[c]]
            /\ IF LockFree(c)
               THEN RateLimitBody(t, c, EnsuredConn(c))
               ELSE /\ lockWaiters' = [lockWaiters EXCEPT ![c] = Append(@, t)]
                    /\ pc' = [pc EXCEPT ![t] = "lock_wait"]
                    /\ result' = [result EXCEPT ![t] = NoResult]
                    /\ UNCHANGED <<last, grantLog, getLog, lockHolder, wake>>
            /\ UNCHANGED <<now, env, ucall, cacheVars, built, client, acloses, managerVars, held, gc, gets>>

\* a task that was handed the lock resumes inside _rate_limit
LockResume(t) ==
    /\ pc[t] = "locked"
    /\ RateLimitBody(t, held[t], conn[held[t]])
    /\ UNCHANGED <<now, env, ucall, cacheVars, closes_at_call, built, client, conn, acloses, opens, managerVars,
                   held, req, ops, gc, gets>>

\* asyncio.sleep(sleep_time) returns, no earlier than asked
SleepDone(t) ==
    /\ pc[t] = "sleeping" /\ now >= wake[t]
    /\ GrantAndGet(t, held[t], conn[held[t]])
    /\ UNCHANGED <<now, env, ucall, cacheVars, closes_at_call, built, client, conn, acloses, opens, managerVars,
                   held, req, ops, gc, gets>>

RespondRefund(t, out) ==
    /\ pc[t] = "in_flight"
    /\ pc' = [pc EXCEPT ![t] = "idle"]
    /\ result' = [result EXCEPT ![t] = RequestResult(out)]
    /\ last' = [last EXCEPT ![held[t]] =
                   IF RequestResult(out).kind = "ok" THEN @ ELSE 0]
    /\ UNCHANGED <<now, env, ucall, cacheVars, built, client, conn, lockHolder, lockWaiters,
                   acloses, opens, managerVars, held, wake, req, ops, gc, gets,
                   logVars>>

\* self._client.get returns a response or raises
Respond(t, out) ==
    /\ pc[t] = "in_flight"
    /\ pc' = [pc EXCEPT ![t] = "idle"]
    /\ result' = [result EXCEPT ![t] = RequestResult(out)]
    /\ UNCHANGED <<now, env, ucall, cacheVars, clientVars, managerVars, held, wake, req, ops, gc, gets,
                   logVars>>

Tick ==
    /\ now < EndOfTime
    /\ now' = now + 1
    /\ UNCHANGED <<clientVars, managerVars, taskVars, logVars, cacheVars, env,
                   ucall>>

\* ----------------------------------------------------- inputs of the model
Req(op, query, limit, offset, mbid, entity_type) ==
    [op |-> op, query |-> query, limit |-> limit, offset |-> offset,
     mbid |-> mbid, entity_type |-> entity_type]
NoReq == Req("none", <<>>, 0, 0, <<>>, "")

Hyphen == <<"-">>
\* b10bbbfc-cf9e-42e0-be17-e2c3e1d2600d, its upper-case form, the same
\* followed by a newline, and malformed strings
MbidLower ==
    <<"b", "1", "0", "b", "b", "b", "f", "c">> \o Hyphen \o <<"c", "f", "9", "e">>
    \o Hyphen \o <<"4", "2", "e", "0">> \o Hyphen \o <<"b", "e", "1", "7">>
    \o Hyphen \o <<"e", "2", "c", "3", "e", "1", "d", "2", "6", "0", "0", "d">>
MbidUpper ==
    [i \in 1..Len(MbidLower) |->
        CASE MbidLower[i] = "b" -> "B" [] MbidLower[i] = "c" -> "C"
          [] MbidLower[i] = "d" -> "D" [] MbidLower[i] = "e" -> "E"
          [] MbidLower[i] = "f" -> "F" [] OTHER -> MbidLower[i]]
MbidNewline == MbidLower \o <<"\n">>
MbidTwoNewlines == MbidLower \o <<"\n", "\n">>
MbidNotHex == [MbidLower EXCEPT ![3] = "g"]
MbidNoHyphen == [MbidLower EXCEPT ![9] = "0"]
MbidShort == SubSeq(MbidLower, 1, 35)
MbidLong == MbidLower \o <<"0">>
MbidLeadingSpace == <<" ">> \o MbidLower
NotAUuid == <<"n", "o", "t", "-", "a", "-", "u", "u", "i", "d">>
MbidSamples == {MbidLower, MbidUpper, MbidNewline, MbidTwoNewlines, MbidNotHex,
                MbidNoHyphen, MbidShort, MbidLong, MbidLeadingSpace, NotAUuid, <<>>}

QuerySamples == {<<>>, <<" ", " ", " ">>, <<"\t", "\n">>, <<"a">>, <<" ", "a", " ">>}
LimitSamples == {0 - 1, 0, 1, 25, 100, 101}
OffsetSamples == {0 - 1, 0, 1}
TypeSamples == {"artist", "url", "release-group", "track", "Artist", ""}

SearchRequests(opset) ==
    {Req(op, q, l, o, <<>>, "") :
        op \in opset, q \in QuerySamples, l \in LimitSamples, o \in OffsetSamples}
LookupRequests(opset) ==
    {Req(op, <<>>, 25, 0, m, "") : op \in opset, m \in MbidSamples}
BrowseRequests(opset) ==
    {Req(op, <<>>, l, o, m, "") :
        op \in opset, l \in LimitSamples, o \in OffsetSamples, m \in MbidSamples}
GenericRequests ==
    {Req("lookup_by_mbid", <<>>, 25, 0, m, ty) : m \in MbidSamples, ty \in TypeSamples}

\* every entry point, over all the sample parameters
AllRequests ==
    SearchRequests(SearchOps) \cup LookupRequests(LookupOps)
        \cup BrowseRequests(BrowseOps) \cup GenericRequests
\* a few calls, for the runs with several tasks
CoreRequests ==
    {Req("search_artist", <<"a">>, 25, 0, <<>>, ""),
     Req("search_artist", <<"a">>, 101, 0, <<>>, ""),
     Req("lookup_artist", <<>>, 25, 0, NotAUuid, "")}

Response(status, retry_after, json_ok) ==
    [type |-> "response", status |-> status, retry_after |-> retry_after,
     json_ok |-> json_ok, payload |-> DefaultPayload]
Transport(type) ==
    [type |-> type, status |-> 0, retry_after |-> None, json_ok |-> FALSE,
     payload |-> DefaultPayload]
\* the same outcome with response.json() giving payload
WithPayload(out, payload) == [out EXCEPT !.payload = payload]

StatusSamples == {200, 204, 301, 400, 401, 404, 429, 500, 502, 503}
\* Retry-After: absent, empty, seconds, and values int() does not parse
HeaderSamples ==
    {None, Some(<<>>), Some(<<"5">>), Some(<<"0">>), Some(<<"1", "2", "0">>),
     Some(<<" ", "7", " ">>), Some(<<"1", "_", "0">>), Some(<<"-", "1">>),
     Some(<<"a", "b", "c">>), Some(<<"1", ".", "5">>), Some(<<" ">>),
     Some(<<"W", "e", "d", ",", " ", "2", "1", " ", "O", "c", "t">>)}

AllOutcomes ==
    {Response(s, h, j) : s \in StatusSamples, h \in HeaderSamples, j \in BOOLEAN}
        \cup {Transport("timeout"), Transport("connect_error"),
              Transport("other_exception")}
CoreOutcomes ==
    {Response(200, None, TRUE), Response(404, None, FALSE), Transport("timeout")}

\* rate_limit values a client is constructed with
RateSamples == {1, 2, 0, 0 - 1}

\* ------------------------------------------------------------ the cache
\* the keys and values of the cache runs
CacheKeys == {"k1", "k2"}
CacheValues == {"v1", "v2"}
\* _global_cache = CacheUtils(default_ttl=300), in ticks
GlobalDefaultTtl == 300 * OneSecond
\* none of the three environment variables is set
NoEnv == [user_agent |-> None, rate_limit |-> None, timeout |-> None]
\* no MBIDUtils call made yet
NoUcall == [fn |-> "none", arg |-> None, ret |-> None]
\* no cache operation made yet (stored: the key had an entry at the call)
NoRet == [op |-> "none", key |-> "", stored |-> FALSE, expired |-> FALSE, ret |-> None]

\* ------------------------------------------------------ specifications
InitClients ==
    /\ now = EpochStart
    /\ conn = [c \in ClientIds |-> "none"]
    /\ last = [c \in ClientIds |-> 0]
    /\ lockHolder = [c \in ClientIds |-> 0]
    /\ lockWaiters = [c \in ClientIds |-> <<>>]
    /\ acloses = [c \in ClientIds |-> 0]
    /\ opens = [c \in ClientIds |-> 0]
    /\ current_config = None
    /\ client_config = None
    /\ pc = [t \in Tasks |-> "idle"]
    /\ wake = [t \in Tasks |-> 0]
    /\ req = [t \in Tasks |-> NoReq]
    /\ result = [t \in Tasks |-> NoResult]
    /\ ops = 0
    /\ closes_at_call = [t \in Tasks |-> 0]
    /\ gc = [t \in Tasks |-> NoGc]
    /\ gets = 0
    /\ grantLog = [c \in ClientIds |-> <<>>]
    /\ getLog = <<>>

\* the state of every run that starts with the process: no call made yet,
\* the global cache of utils.py empty, the environment variables unset
InitCommon ==
    /\ InitClients
    /\ env = NoEnv
    /\ ucall = NoUcall
    /\ cache = [k \in CacheKeys |-> None]
    /\ default_ttl = GlobalDefaultTtl
    /\ cret = NoRet

\* One MusicBrainzClient constructed directly, shared by all the tasks.
Init ==
    /\ InitCommon
    /\ \E r \in RateSamples :
         client = [c \in ClientIds |-> NewClient(None, r, DefaultTimeout)]
    /\ built = [c \in ClientIds |-> c = 1]
    /\ mclient = 0
    /\ held = [t \in Tasks |-> 1]

Next ==
    \/ \E t \in Tasks, r \in CoreRequests : Call(t, r)
    \/ \E t \in Tasks : LockResume(t)
    \/ \E t \in Tasks : SleepDone(t)
    \/ \E t \in Tasks, out \in CoreOutcomes : Respond(t, out)
    \/ Tick

Spec == Init /\ [][Next]_vars

\* One call on a fresh client, over every entry point, every sample of its
\* parameters and every outcome of the GET.
NextCall ==
    \/ \E r \in AllRequests : (ops = 0 /\ Call(1, r))
    \/ \E out \in AllOutcomes : Respond(1, out)

SpecCall == Init /\ [][NextCall]_vars

\* ------------------------------------------------- the client lifecycle
\* a dict is truthy iff it is not None and not empty
Truthy(cfg) == cfg # None /\ DOMAIN cfg[1] # {}

\* dict.get(key, default)
DictGet(d, key, default) == IF key \in DOMAIN d THEN d[key] ELSE default

\* os.getenv(name, default): the variable's value if it is set
GetEnv(name, default) == IF env[name] = None THEN default ELSE env[name][1]

\* configure_client_from_env: the client it constructs (a numeric
\* environment value stands for the float() of its text)
ConfiguredClient(cfg) ==
    LET user_agent == GetEnv("user_agent", DefaultUserAgent)
        rate_limit == GetEnv("rate_limit", DefaultRateLimit)
        timeout == GetEnv("timeout", DefaultTimeout)
    IN IF Truthy(cfg)
       THEN NewClient(Some(DictGet(cfg[1], "user_agent", user_agent)),
                      DictGet(cfg[1], "rate_limit", rate_limit),
                      DictGet(cfg[1], "timeout", timeout))
       ELSE NewClient(Some(user_agent), rate_limit, timeout)

EffectiveConfigGlobalFirst(cfg) == IF Truthy(current_config) THEN current_config ELSE cfg
\* effective_config = config or _current_config
EffectiveConfig(cfg) == IF Truthy(cfg) THEN cfg ELSE current_config

ConfigChangedAlways(eff) == mclient # 0
\* config_changed = _client is not None and effective_config != _client_config
ConfigChanged(eff) == mclient # 0 /\ eff # client_config

StoredConfigStale(eff) == client_config
\* _client_config = effective_config.copy() if effective_config else None
StoredConfig(eff) == IF Truthy(eff) THEN eff ELSE None

\* the next object to be constructed
CanBuild == \E c \in ClientIds : ~built[c]
NewId == CHOOSE c \in ClientIds : ~built[c] /\ \A d \in 1..(c - 1) : built[d]

ReleasedNever(c) == acloses[c]
\* httpx aclose() releases an open connection; on a closed one it does nothing
Released(c) == IF conn[c] = "open" THEN acloses[c] + 1 ELSE acloses[c]

\* a middleware that records whatever it parsed
DispatchAlways(cfg) ==
    /\ current_config' = cfg
    /\ UNCHANGED <<now, env, ucall, cacheVars, clientVars, mclient, client_config, taskVars, logVars>>

\* ConfigurationMiddleware.dispatch: a request with query parameters cfg
Dispatch(cfg) ==
    /\ current_config' = (IF Truthy(cfg) THEN cfg ELSE current_config)
    /\ UNCHANGED <<now, env, ucall, cacheVars, clientVars, mclient, client_config, taskVars, logVars>>

\* lines 157-164 of get_client, run by task t for effective_config eff once
\* the old client (if any) is closed: build, __aenter__, store, return
BuildAndReturn(t, eff, connNow) ==
    /\ built' = [built EXCEPT ![NewId] = TRUE]
    /\ client' = [client EXCEPT ![NewId] = ConfiguredClient(eff)]
    /\ conn' = [connNow EXCEPT ![NewId] = "open"]
    /\ opens' = [opens EXCEPT ![NewId] = @ + 1]
    /\ mclient' = NewId
    /\ client_config' = StoredConfig(eff)
    /\ held' = [held EXCEPT ![t] = NewId]
    /\ pc' = [pc EXCEPT ![t] = "idle"]
    /\ gc' = [gc EXCEPT ![t] = NoGc]

\* get_client(cfg) by task t, up to its first suspension
GetClient(t, cfg) ==
    /\ pc[t] = "idle" /\ gets < MaxGets
    /\ gets' = gets + 1
    /\ LET eff == EffectiveConfig(cfg)
           old == mclient
       IN
       /\ IF old # 0 /\ ~ConfigChanged(eff)
          THEN \* return _client
               /\ held' = [held EXCEPT ![t] = old]
               /\ UNCHANGED <<clientVars, managerVars, pc, gc>>
          ELSE IF old # 0 /\ conn[old] = "open"
          THEN \* await self._client.aclose() inside close()
               /\ acloses' = [acloses EXCEPT ![old] = Released(old)]
               /\ conn' = [conn EXCEPT ![old] = "closed"]
               /\ pc' = [pc EXCEPT ![t] = "gc_closing"]
               /\ gc' = [gc EXCEPT ![t] = [eff |-> eff, old |-> old]]
               /\ UNCHANGED <<built, client, last, lockHolder, lockWaiters, opens,
                              managerVars, held>>
          ELSE \* nothing to await: close() returns at once, or no client
               /\ CanBuild
               /\ BuildAndReturn(t, eff,
                     IF old # 0 THEN [conn EXCEPT ![old] = "none"] ELSE conn)
               /\ UNCHANGED <<last, lockHolder, lockWaiters, acloses>>
    /\ UNCHANGED <<now, env, ucall, cacheVars, current_config, wake, req, result, ops, logVars>>

\* aclose() has returned: self._client = None on the old object, _client =
\* None, then the new client is built
GetClientResume(t) ==
    /\ pc[t] = "gc_closing"
    /\ CanBuild
    /\ BuildAndReturn(t, gc[t].eff, [conn EXCEPT ![gc[t].old] = "none"])
    /\ UNCHANGED <<now, env, ucall, cacheVars, last, lockHolder, lockWaiters, acloses, current_config,
                   wake, req, result, ops, gets, logVars>>

\* no configuration, one equal to the defaults field by field, one that
\* changes the rate limit
ConfigSamples == {None, Some([rate_limit |-> 1]), Some([rate_limit |-> 2])}
\* the calls and outcomes of the lifecycle runs
LifeRequests == {Req("search_artist", <<"a">>, 25, 0, <<>>, "")}
LifeOutcomes == {Response(200, None, TRUE), Transport("timeout")}
\* the lifecycle runs look at a shorter stretch of time
LifeTicks == 3

\* The server process: started by main(), which calls
\* configure_client_from_env(), or used as a library with no client yet.
InitLife ==
    /\ InitCommon
    /\ client = [c \in ClientIds |-> ConfiguredClient(None)]
    /\ \E started \in BOOLEAN :
         /\ built = [c \in ClientIds |-> started /\ c = 1]
         /\ mclient = IF started THEN 1 ELSE 0
    /\ held = [t \in Tasks |-> 0]

NextLife ==
    \/ \E cfg \in ConfigSamples : Dispatch(cfg)
    \/ \E t \in Tasks, cfg \in ConfigSamples : GetClient(t, cfg)
    \/ \E t \in Tasks : GetClientResume(t)
    \/ \E t \in Tasks, r \in LifeRequests : Call(t, r)
    \/ \E t \in Tasks : LockResume(t)
    \/ \E t \in Tasks : SleepDone(t)
    \/ \E t \in Tasks, out \in LifeOutcomes : Respond(t, out)
    \/ (now < EpochStart + LifeTicks /\ Tick)

SpecLife == InitLife /\ [][NextLife]_vars

\* ------------------------------------------------------------- claims
InCriticalSection(t) == pc[t] \in {"locked", "sleeping"}

\* C1: on one client with a fixed rate_limit r > 0 the values _rate_limit
\* writes to _last_request_time never decrease, two consecutive ones are at
\* least 1/r apart, and so the i-th and the j-th are at least (j - i)/r apart
\* (r * distance >= (j - i) seconds), for any interleaving of the callers.
C1_RateSpacing ==
    \A c \in ClientIds :
        \A i, j \in 1..Len(grantLog[c]) :
            i < j =>
                /\ grantLog[c][i] <= grantLog[c][j]
                /\ client[c].rate_limit > 0 =>
                     client[c].rate_limit * (grantLog[c][j] - grantLog[c][i])
                        >= (j - i) * OneSecond

\* three permits granted at one request per second, the second one a full
\* second after the first
C1_Witness ==
    /\ client[1].rate_limit = 1
    /\ Len(grantLog[1]) >= 3
    /\ grantLog[1][2] - grantLog[1][1] = OneSecond

C2_MutexInv ==
    /\ \A t, u \in Tasks :
          (InCriticalSection(t) /\ InCriticalSection(u) /\ held[t] = held[u]) => t = u
    /\ \A t \in Tasks : InCriticalSection(t) => lockHolder[held[t]] = t

C2_NoForeignWrite ==
    \A c \in ClientIds :
        (\E t \in Tasks : held[t] = c /\ InCriticalSection(t) /\ InCriticalSection(t)')
            => last'[c] = last[c]

\* C2: at most one task at a time is between the read of _last_request_time
\* and its write (sleep included), that task holds the lock, and nobody
\* else writes _last_request_time while it is in there.
C2_MutualExclusion == [](C2_MutexInv) /\ [][C2_NoForeignWrite]_vars

\* one caller sleeps inside the critical section while another one queues
C2_Witness ==
    \E t, u \in Tasks :
        /\ t # u /\ held[t] = held[u]
        /\ pc[t] = "sleeping" /\ pc[u] = "lock_wait"

\* C3: all the requests that go out through clients obtained from
\* get_client are at least 1/rate_limit apart, whichever client issued them:
\* the last two GETs of the process are spaced by the interval of the faster
\* of their two clients at least.
C3_GlobalSpacing ==
    Len(getLog) = 2 =>
        LET ra == client[getLog[1][2]].rate_limit
            rb == client[getLog[2][2]].rate_limit
            r == IF ra > rb THEN ra ELSE rb
        IN  (ra > 0 /\ rb > 0) =>
                r * (getLog[2][1] - getLog[1][1]) >= OneSecond

\* what C4 says a GET's outcome becomes
C4_Expected(out, res) ==
    CASE out.type = "timeout" -> res.kind = "TimeoutError"
      [] out.type = "connect_error" -> res.kind = "ConnectionError"
      [] out.type = "response" /\ ~IsSuccess(out.status) ->
            CASE out.status = 400 ->
                    res.kind = "BadRequestError" /\ res.status = Some(400)
              [] out.status = 404 ->
                    res.kind = "NotFoundError" /\ res.status = Some(404)
              [] out.status = 503 ->
                    res.kind = "RateLimitError" /\ res.status = Some(503)
              [] OTHER -> res.kind = "APIError" /\ res.status = Some(out.status)
      [] OTHER -> TRUE

\* C4: every non-2xx response becomes the error kind its status code
\* determines (400, 404, 503, any other status), a timeout becomes
\* TimeoutError and a connect failure ConnectionError.
C4_ErrorMapping ==
    [][\A out \in AllOutcomes :
          Respond(1, out) => C4_Expected(out, result'[1])]_vars

\* C5: whatever a client call raises is one of the seven kinds of the
\* taxonomy, for every client configuration and every point of failure.
C5_TypeClosed ==
    \A t \in Tasks : result[t].kind \in Taxonomy \cup {"ok", "none"}

\* C6: every 503 response yields RateLimitError; with a Retry-After header,
\* whatever its value, retry_after carries a number of seconds (5 for "5"),
\* and without the header retry_after is absent.
C6_RetryAfter ==
    [][\A out \in AllOutcomes :
          (Respond(1, out) /\ out.type = "response" /\ out.status = 503) =>
              /\ result'[1].kind = "RateLimitError"
              /\ out.retry_after = None => result'[1].retry_after = None
              /\ out.retry_after # None => result'[1].retry_after # None
              /\ out.retry_after = Some(<<"5">>) => result'[1].retry_after = Some(5)]_vars

\* an identifier is well formed iff it is 8-4-4-4-12 hexadecimal digits,
\* hyphenated, and nothing else
WellFormedMbid(s) == Len(s) = 36 /\ MbidBody(s)

\* what C7 says makes a search or a browse fail with ValidationError
C7_Invalid(r) ==
    \/ r.limit < 1 \/ r.limit > 100 \/ r.offset < 0
    \/ r.op \in SearchOps /\ \A i \in 1..Len(r.query) : r.query[i] \in PyWhitespace
    \/ r.op \in BrowseOps /\ ~WellFormedMbid(r.mbid)

\* C7: a search fails with ValidationError iff the query is empty or
\* whitespace, or limit < 1, or limit > 100, or offset < 0; a browse iff the
\* identifier is malformed or limit/offset break the same bounds.
C7_ValidationIff ==
    [][\A r \in AllRequests :
          (Call(1, r) /\ r.op \in SearchOps \cup BrowseOps) =>
              (result'[1].kind = "ValidationError" <=> C7_Invalid(r))]_vars

\* what validation must leave alone: permits, lock, connections, GETs
NetworkVars == <<last, grantLog, lockHolder, lockWaiters, conn, opens, getLog>>

\* C8: a call that fails with ValidationError failed before any network
\* activity: the error arises straight from the entry point (never after
\* the rate limiter or the GET), and that step consumed no permit, did not
\* touch the lock, created no connection and issued no GET.
C8_ValidationFirst ==
    [][\A t \in Tasks :
          /\ (result'[t].kind = "ValidationError" /\ result'[t] # result[t]) =>
                (pc[t] = "idle" /\ pc'[t] = "idle" /\ UNCHANGED NetworkVars)
          /\ \A r \in AllRequests :
                (Call(t, r) /\ result'[t].kind = "ValidationError") =>
                    (pc'[t] = "idle" /\ UNCHANGED NetworkVars)]_vars

\* a call was rejected by validation and nothing was opened or granted
C8_Witness ==
    /\ result[1].kind = "ValidationError"
    /\ req[1].op = "browse_artist_releases" /\ req[1].limit = 101
    /\ ops = 1 /\ conn[1] = "none" /\ last[1] = 0

\* C9: get_client called while a client is managed, with an effective
\* configuration equal to the stored fingerprint, returns that very client
\* at once and closes, builds and stores nothing; and a get_client() that
\* returned leaves the fingerprint equal to the global override, so the
\* next get_client() is such a call.
C9_Reuse ==
    [][\A t \in Tasks, cfg \in ConfigSamples :
          /\ (GetClient(t, cfg) /\ mclient # 0
                 /\ EffectiveConfig(cfg) = client_config) =>
                /\ held'[t] = mclient /\ pc'[t] = "idle"
                /\ UNCHANGED <<clientVars, managerVars>>
          /\ (GetClient(t, None) /\ pc'[t] = "idle") =>
                (mclient' # 0 /\ held'[t] = mclient'
                    /\ client_config' = current_config')]_vars

\* two tasks were handed the same managed client, built from an override
C9_Witness ==
    \E t, u \in Tasks :
        /\ t # u /\ mclient # 0 /\ held[t] = mclient /\ held[u] = mclient
        /\ client_config # None /\ conn[mclient] = "open"

\* C10: get_client called while a client is managed, with an effective
\* configuration different from the stored fingerprint: an open connection
\* of the old client is released once, when close() starts, and not again
\* while the call runs; the call returns an object constructed in that
\* step from the new configuration, which becomes the managed client; the
\* stored fingerprint becomes the new one; the old client is left without
\* a connection.
C10_Rebuild ==
    [][\A t \in Tasks :
          /\ \A cfg \in ConfigSamples :
                (GetClient(t, cfg) /\ mclient # 0
                    /\ EffectiveConfig(cfg) # client_config) =>
                   IF conn[mclient] = "open"
                   THEN /\ acloses'[mclient] = acloses[mclient] + 1
                        /\ conn'[mclient] = "closed"
                        /\ pc'[t] = "gc_closing" /\ mclient' = mclient
                   ELSE /\ acloses' = acloses
                        /\ conn'[mclient] = "none"
                        /\ ~built[held'[t]] /\ built'[held'[t]]
                        /\ client'[held'[t]] = ConfiguredClient(EffectiveConfig(cfg))
                        /\ mclient' = held'[t]
                        /\ client_config' = EffectiveConfig(cfg)
          /\ pc[t] = "gc_closing" => acloses'[gc[t].old] = acloses[gc[t].old]
          /\ GetClientResume(t) =>
                /\ ~built[held'[t]] /\ built'[held'[t]]
                /\ client'[held'[t]] = ConfiguredClient(gc[t].eff)
                /\ conn'[held'[t]] = "open"
                /\ mclient' = held'[t]
                /\ client_config' = gc[t].eff
                /\ conn'[gc[t].old] = "none"]_vars

\* a client with an open connection was replaced: it was released once, a
\* client at two requests per second is managed, the fingerprint says so
C10_Witness ==
    \E c \in ClientIds :
        /\ built[c] /\ opens[c] = 1 /\ acloses[c] = 1 /\ conn[c] = "none"
        /\ mclient \notin {0, c}
        /\ client[mclient].rate_limit = 2
        /\ client_config = Some([rate_limit |-> 2])

\* the fields a MusicBrainzClient is configured with (base_url is never
\* passed by configure_client_from_env, so it is BASE_URL for every client)
SameFields(a, b) ==
    /\ a.user_agent = b.user_agent
    /\ a.rate_limit = b.rate_limit
    /\ a.timeout = b.timeout

\* C11: with a managed client present, get_client(cfg) returns that client
\* (and builds nothing) if and only if the client the effective
\* configuration would build has the same user_agent, rate_limit and
\* timeout as the managed client, whichever source supplied each field.
C11_FingerprintEquality ==
    [][\A t \in Tasks, cfg \in ConfigSamples :
          (mclient # 0 /\ GetClient(t, cfg)) =>
             ((held'[t] = mclient /\ mclient' = mclient /\ pc'[t] = "idle")
                <=> SameFields(ConfiguredClient(EffectiveConfig(cfg)),
                               client[mclient]))]_vars

\* ------------------------------------------------------------ shutdown
\* cleanup() by task t, up to its first suspension
Cleanup(t) ==
    /\ pc[t] = "idle"
    /\ IF mclient = 0
       THEN UNCHANGED <<clientVars, managerVars, pc, gc>>
       ELSE IF conn[mclient] = "open"
       THEN \* await self._client.aclose() inside close()
            /\ acloses' = [acloses EXCEPT ![mclient] = Released(mclient)]
            /\ conn' = [conn EXCEPT ![mclient] = "closed"]
            /\ pc' = [pc EXCEPT ![t] = "cleanup_closing"]
            /\ gc' = [gc EXCEPT ![t] = [eff |-> None, old |-> mclient]]
            /\ UNCHANGED <<built, client, last, lockHolder, lockWaiters, opens,
                           managerVars>>
       ELSE \* close() returns at once; _client = None; _client_config = None
            /\ conn' = [conn EXCEPT ![mclient] = "none"]
            /\ mclient' = 0
            /\ client_config' = None
            /\ UNCHANGED <<built, client, last, lockHolder, lockWaiters, acloses,
                           opens, current_config, pc, gc>>
    /\ UNCHANGED <<now, env, ucall, cacheVars, held, wake, req, result, ops, gets, logVars>>

\* aclose() has returned: self._client = None on the closed object, then
\* _client = None and _client_config = None
CleanupResume(t) ==
    /\ pc[t] = "cleanup_closing"
    /\ conn' = [conn EXCEPT ![gc[t].old] = "none"]
    /\ mclient' = 0
    /\ client_config' = None
    /\ pc' = [pc EXCEPT ![t] = "idle"]
    /\ gc' = [gc EXCEPT ![t] = NoGc]
    /\ UNCHANGED <<now, env, ucall, cacheVars, built, client, last, lockHolder, lockWaiters, acloses,
                   opens, current_config, held, wake, req, result, ops, gets,
                   logVars>>

\* the configurations of the shutdown runs: none, and one that changes the
\* rate limit
ShutdownConfigs == {None, Some([rate_limit |-> 2])}

\* The server process with its shutdown hook, within one instant of the
\* clock: get_client, client calls that need no sleep, and cleanup().
NextShutdown ==
    \/ \E cfg \in ShutdownConfigs : Dispatch(cfg)
    \/ \E t \in Tasks, cfg \in ShutdownConfigs : GetClient(t, cfg)
    \/ \E t \in Tasks : GetClientResume(t)
    \/ \E t \in Tasks : Cleanup(t)
    \/ \E t \in Tasks : CleanupResume(t)
    \/ \E t \in Tasks, r \in LifeRequests : Call(t, r)
    \/ \E t \in Tasks, out \in LifeOutcomes : Respond(t, out)

SpecShutdown == InitLife /\ [][NextShutdown]_vars

\* C12: cleanup() with no managed client changes nothing; with a managed
\* client it releases that client's open connection, once, and when it
\* completes the manager has no client and no stored fingerprint and the
\* closed object has no connection; so a second cleanup() changes nothing
\* more, and a get_client after it builds and enters a new object.
C12_CleanupIdempotent ==
    [][\A t \in Tasks :
          /\ (Cleanup(t) /\ mclient = 0) => UNCHANGED vars
          /\ (Cleanup(t) /\ mclient # 0) =>
                IF conn[mclient] = "open"
                THEN /\ acloses'[mclient] = acloses[mclient] + 1
                     /\ conn'[mclient] = "closed"
                     /\ pc'[t] = "cleanup_closing"
                ELSE /\ acloses' = acloses
                     /\ conn'[mclient] = "none"
                     /\ mclient' = 0 /\ client_config' = None
          /\ CleanupResume(t) =>
                /\ acloses' = acloses
                /\ conn'[gc[t].old] = "none"
                /\ mclient' = 0 /\ client_config' = None
          /\ \A cfg \in ShutdownConfigs :
                (GetClient(t, cfg) /\ mclient = 0) =>
                   /\ ~built[held'[t]] /\ built'[held'[t]]
                   /\ mclient' = held'[t]
                   /\ conn'[mclient'] = "open"
                   /\ client'[mclient'] = ConfiguredClient(EffectiveConfig(cfg))]_vars

\* cleanup() has run on a client that had an open connection, then a second
\* time: the connection was released once, the manager is absent
C12_Witness ==
    /\ mclient = 0 /\ client_config = None
    /\ \A t \in Tasks : pc[t] = "idle"
    /\ \E c \in ClientIds :
          built[c] /\ opens[c] = 1 /\ acloses[c] = 1 /\ conn[c] = "none"

\* ------------------------------------------------- the async context
\* the connections one client object may open in the context runs
MaxOpens == 2

\* async with client: __aenter__ by task t on client object c
Aenter(t, c) ==
    /\ pc[t] = "idle" /\ held[t] = 0 /\ built[c] /\ opens[c] < MaxOpens
    /\ conn' = [conn EXCEPT ![c] = EnsuredConn(c)]
    /\ opens' = [opens EXCEPT ![c] = IF conn[c] = "none" THEN @ + 1 ELSE @]
    /\ held' = [held EXCEPT ![t] = c]
    /\ UNCHANGED <<now, env, ucall, cacheVars, built, client, last, lockHolder, lockWaiters, acloses,
                   managerVars, pc, wake, req, result, ops, gc, gets, logVars>>

\* the body of the context is left, normally or by an exception:
\* __aexit__ calls close(), up to its suspension in aclose()
Aexit(t) ==
    /\ pc[t] = "idle" /\ held[t] # 0
    /\ LET c == held[t] IN
       IF conn[c] = "open"
       THEN /\ acloses' = [acloses EXCEPT ![c] = Released(c)]
            /\ conn' = [conn EXCEPT ![c] = "closed"]
            /\ pc' = [pc EXCEPT ![t] = "exiting"]
            /\ UNCHANGED held
       ELSE /\ conn' = [conn EXCEPT ![c] = "none"]
            /\ held' = [held EXCEPT ![t] = 0]
            /\ UNCHANGED <<acloses, pc>>
    /\ UNCHANGED <<now, env, ucall, cacheVars, built, client, last, lockHolder, lockWaiters, opens,
                   managerVars, wake, req, result, ops, gc, gets, logVars>>

\* aclose() has returned: self._client = None, and the context is left
AexitResume(t) ==
    /\ pc[t] = "exiting"
    /\ conn' = [conn EXCEPT ![held[t]] = "none"]
    /\ held' = [held EXCEPT ![t] = 0]
    /\ pc' = [pc EXCEPT ![t] = "idle"]
    /\ UNCHANGED <<now, env, ucall, cacheVars, built, client, last, lockHolder, lockWaiters, acloses,
                   opens, managerVars, wake, req, result, ops, gc, gets, logVars>>

\* One MusicBrainzClient constructed directly. Task 1 uses it as an async
\* context manager; the other tasks hold the object and call it, inside
\* the context or outside it.
InitScope ==
    /\ InitCommon
    /\ \E r \in RateSamples :
         client = [c \in ClientIds |-> NewClient(None, r, DefaultTimeout)]
    /\ built = [c \in ClientIds |-> c = 1]
    /\ mclient = 0
    /\ held = [t \in Tasks |-> IF t = 1 THEN 0 ELSE 1]

NextScope ==
    \/ Aenter(1, 1)
    \/ Aexit(1)
    \/ AexitResume(1)
    \/ \E t \in Tasks, r \in LifeRequests : Call(t, r)
    \/ \E t \in Tasks : LockResume(t)
    \/ \E t \in Tasks : SleepDone(t)
    \/ \E t \in Tasks, out \in CoreOutcomes : Respond(t, out)
    \/ Tick

SpecScope == InitScope /\ [][NextScope]_vars

\* C13: a client object has no connection until its first use; while task
\* 1 is inside the async context the connection is present; when __aexit__
\* completes the connection is absent, and it was released if it was open,
\* whatever the last call of the body returned or raised.
C13_ScopedConnection ==
    /\ [](\A c \in ClientIds : opens[c] = 0 => conn[c] = "none")
    /\ []((held[1] # 0 /\ pc[1] # "exiting") => conn[held[1]] = "open")
    /\ [][/\ Aenter(1, 1) => conn'[1] = "open"
          /\ Aexit(1) =>
                /\ acloses'[held[1]] = acloses[held[1]] + 1
                /\ conn'[held[1]] = "closed"
          /\ AexitResume(1) =>
                /\ conn'[held[1]] = "none" /\ held'[1] = 0
                /\ acloses' = acloses]_vars

\* the body's call raised a timeout, then the context was left: the one
\* connection that was opened has been released and is absent
C13_Witness ==
    /\ held[1] = 0 /\ pc[1] = "idle"
    /\ result[1].kind = "TimeoutError"
    /\ opens[1] = 1 /\ acloses[1] = 1 /\ conn[1] = "none"

\* C14: construction rejects a non-positive rate_limit or timeout, so no
\* client object that exists (and so none that is managed or issues a
\* request) has one.
C14_ConstructionValidated ==
    \A c \in ClientIds :
        built[c] => (client[c].rate_limit > 0 /\ client[c].timeout > 0)

\* ------------------------------------------------- cache operations
\* key in self._cache
KeyInUnexpired(k) == cache[k] # None /\ now <= cache[k][1].expires_at
KeyIn(k) == cache[k] # None

\* the call finds an entry of key k that is past its expires_at
Lapsed(k) == cache[k] # None /\ now > cache[k][1].expires_at

\* get: time.time() > entry["expires_at"]
GetExpiredAtDeadline(current_time, entry) == current_time >= entry.expires_at
GetExpired(current_time, entry) == current_time > entry.expires_at

\* cleanup_expired: current_time > entry["expires_at"]
SweepExpiredAtDeadline(current_time, entry) == current_time >= entry.expires_at
SweepExpired(current_time, entry) == current_time > entry.expires_at

\* stats: current_time > entry["expires_at"]
StatsExpiredAtDeadline(current_time, entry) == current_time >= entry.expires_at
StatsExpired(current_time, entry) == current_time > entry.expires_at

\* set: if ttl is None: ttl = self._default_ttl
TtlOrDefaultFalsy(ttl) == IF ttl = None \/ ttl = Some(0) THEN default_ttl ELSE ttl[1]
TtlOrDefault(ttl) == IF ttl = None THEN default_ttl ELSE ttl[1]

\* the dict stored by set
Entry(value, ttl) ==
    [value |-> value, expires_at |-> now + ttl, created_at |-> now]

CacheGetSweeping(k) ==
    /\ cache' = [j \in CacheKeys |->
                    IF cache[j] # None /\ GetExpired(now, cache[j][1])
                    THEN None ELSE cache[j]]
    /\ cret' = [op |-> "get", key |-> k, stored |-> KeyIn(k), expired |-> Lapsed(k),
                ret |-> IF KeyIn(k) /\ ~GetExpired(now, cache[k][1])
                        THEN Some(cache[k][1].value) ELSE None]
    /\ UNCHANGED <<now, default_ttl, clientVars, managerVars, taskVars, logVars,
                   env, ucall>>
\* CacheUtils.get(key)
CacheGet(k) ==
    /\ IF ~KeyIn(k)
       THEN /\ cret' = [op |-> "get", key |-> k, stored |-> KeyIn(k), expired |-> Lapsed(k), ret |-> None]
            /\ UNCHANGED cache
       ELSE IF GetExpired(now, cache[k][1])
       THEN /\ cache' = [cache EXCEPT ![k] = None]
            /\ cret' = [op |-> "get", key |-> k, stored |-> KeyIn(k), expired |-> Lapsed(k), ret |-> None]
       ELSE /\ cret' = [op |-> "get", key |-> k, stored |-> KeyIn(k), expired |-> Lapsed(k),
                        ret |-> Some(cache[k][1].value)]
            /\ UNCHANGED cache
    /\ UNCHANGED <<now, default_ttl, clientVars, managerVars, taskVars, logVars,
                   env, ucall>>

\* CacheUtils.set(key, value, ttl): ttl is None or Some(number)
CacheSet(k, value, ttl) ==
    /\ cache' = [cache EXCEPT ![k] = Some(Entry(value, TtlOrDefault(ttl)))]
    /\ cret' = [op |-> "set", key |-> k, stored |-> KeyIn(k), expired |-> Lapsed(k), ret |-> None]
    /\ UNCHANGED <<now, default_ttl, clientVars, managerVars, taskVars, logVars,
                   env, ucall>>

\* CacheUtils.delete(key)
CacheDelete(k) ==
    /\ IF KeyIn(k)
       THEN /\ cache' = [cache EXCEPT ![k] = None]
            /\ cret' = [op |-> "delete", key |-> k, stored |-> KeyIn(k), expired |-> Lapsed(k), ret |-> Some(TRUE)]
       ELSE /\ cret' = [op |-> "delete", key |-> k, stored |-> KeyIn(k), expired |-> Lapsed(k), ret |-> Some(FALSE)]
            /\ UNCHANGED cache
    /\ UNCHANGED <<now, default_ttl, clientVars, managerVars, taskVars, logVars,
                   env, ucall>>

\* CacheUtils.clear()
CacheClear ==
    /\ cache' = [k \in CacheKeys |-> None]
    /\ cret' = [op |-> "clear", key |-> "", stored |-> FALSE, expired |-> FALSE, ret |-> None]
    /\ UNCHANGED <<now, default_ttl, clientVars, managerVars, taskVars, logVars,
                   env, ucall>>

\* expired_keys of cleanup_expired
ExpiredKeys(store, current_time) ==
    {k \in CacheKeys : store[k] # None /\ SweepExpired(current_time, store[k][1])}

\* CacheUtils.cleanup_expired()
CleanupExpired ==
    /\ cache' = [k \in CacheKeys |->
                    IF k \in ExpiredKeys(cache, now) THEN None ELSE cache[k]]
    /\ cret' = [op |-> "cleanup_expired", key |-> "", stored |-> FALSE, expired |-> FALSE,
                ret |-> Some(Cardinality(ExpiredKeys(cache, now)))]
    /\ UNCHANGED <<now, default_ttl, clientVars, managerVars, taskVars, logVars,
                   env, ucall>>

\* sum(1 for entry in values if current_time > entry["expires_at"]), over
\* the entries of the keys in ks
RECURSIVE ExpiredCount(_, _, _)
ExpiredCount(store, current_time, ks) ==
    IF ks = {} THEN 0
    ELSE LET k == CHOOSE x \in ks : TRUE IN
         (IF store[k] # None /\ StatsExpired(current_time, store[k][1])
          THEN 1 ELSE 0) + ExpiredCount(store, current_time, ks \ {k})

\* len(self._cache)
StoredKeys(store) == {k \in CacheKeys : store[k] # None}

\* the dict stats() returns for the entries store at current_time
\* (memory_usage_bytes, the length of the entries' str(), is left out)
StatsOf(store, current_time) ==
    LET expired_count == ExpiredCount(store, current_time, CacheKeys) IN
    [total_entries |-> Cardinality(StoredKeys(store)),
     expired_entries |-> expired_count,
     active_entries |-> Cardinality(StoredKeys(store)) - expired_count]

\* CacheUtils.stats()
Stats ==
    /\ cret' = [op |-> "stats", key |-> "", stored |-> FALSE, expired |-> FALSE, ret |-> Some(StatsOf(cache, now))]
    /\ UNCHANGED <<now, cache, default_ttl, clientVars, managerVars, taskVars,
                   logVars, env, ucall>>

\* ttl arguments of set: not given, zero, one and three ticks, negative
TtlSamples == {None, Some(0), Some(1), Some(3), Some(0 - 1)}
\* default_ttl of the caches of the runs: one second, and the global cache's
DefaultTtlSamples == {OneSecond, GlobalDefaultTtl}

\* A CacheUtils object, empty after construction; no client is in use.
InitCache ==
    /\ InitClients
    /\ client = [c \in ClientIds |-> NewClient(None, DefaultRateLimit, DefaultTimeout)]
    /\ built = [c \in ClientIds |-> FALSE]
    /\ mclient = 0
    /\ held = [t \in Tasks |-> 0]
    /\ cache = [k \in CacheKeys |-> None]
    /\ default_ttl \in DefaultTtlSamples
    /\ cret = NoRet
    /\ env = NoEnv
    /\ ucall = NoUcall

NextCache ==
    \/ \E k \in CacheKeys : CacheGet(k)
    \/ \E k \in CacheKeys, value \in CacheValues, ttl \in TtlSamples :
          CacheSet(k, value, ttl)
    \/ \E k \in CacheKeys : CacheDelete(k)
    \/ CacheClear
    \/ CleanupExpired
    \/ Stats
    \/ Tick

SpecCache == InitCache /\ [][NextCache]_vars

\* the entry of key k is stored and the time is not past its expires_at
Fresh(k) == cache[k] # None /\ now <= cache[k][1].expires_at

\* C15: get(key) returns the stored value, and changes nothing, only when
\* an entry is stored and the time is not past its expires_at; in every
\* other case it returns absent, and a stored entry that is past its
\* expires_at is removed, which leaves the key as if it had never been set;
\* no other key is touched.
C15_NoStaleRead ==
    [][\A k \in CacheKeys :
          CacheGet(k) =>
             /\ IF Fresh(k)
                THEN cret'.ret = Some(cache[k][1].value) /\ cache' = cache
                ELSE cret'.ret = None /\ cache'[k] = None
             /\ \A j \in CacheKeys \ {k} : cache'[j] = cache[j]]_vars

\* a get found an entry past its expires_at: it returned absent and the
\* entry is gone
C15_Witness ==
    /\ cret.op = "get" /\ cret.stored /\ cret.ret = None
    /\ cache[cret.key] = None

\* C16: set(key, value, ttl) stores value with expires_at = now + ttl,
\* where ttl is default_ttl exactly when it is not given (a ttl of 0 is a
\* given ttl), replacing whatever entry the key had; an entry that is not
\* past its expiry changes only by a set or delete of its key or a clear,
\* and until then every get of the key returns its value.
C16_SetSemantics ==
    [][\A k \in CacheKeys :
          /\ \A value \in CacheValues, ttl \in TtlSamples :
                CacheSet(k, value, ttl) =>
                   /\ cache'[k] # None
                   /\ cache'[k][1].value = value
                   /\ cache'[k][1].expires_at =
                         now + (IF ttl = None THEN default_ttl ELSE ttl[1])
          /\ (Fresh(k) /\ cache'[k] # cache[k]) =>
                \/ \E value \in CacheValues, ttl \in TtlSamples :
                      CacheSet(k, value, ttl)
                \/ CacheDelete(k)
                \/ CacheClear
          /\ (Fresh(k) /\ CacheGet(k)) => cret'.ret = Some(cache[k][1].value)]_vars

\* an entry set after the start with the default ttl of one second was
\* read later, before its expiry, and its value returned
C16_Witness ==
    /\ cret.op = "get" /\ cret.ret = Some("v2")
    /\ default_ttl = OneSecond
    /\ cache[cret.key] # None
    /\ cache[cret.key][1].expires_at = cache[cret.key][1].created_at + default_ttl
    /\ cache[cret.key][1].created_at > EpochStart
    /\ cache[cret.key][1].created_at < now

\* C17: cleanup_expired() removes exactly the entries whose expires_at is
\* before the time of the call, leaves the others as they are and returns
\* how many it removed; stats() at that moment reports no expired entry
\* and a total smaller by the returned count.
C17_Sweep ==
    [][CleanupExpired =>
          LET gone == {k \in CacheKeys :
                          cache[k] # None /\ cache[k][1].expires_at < now}
          IN /\ \A k \in gone : cache'[k] = None
             /\ \A k \in CacheKeys \ gone : cache'[k] = cache[k]
             /\ cret'.ret = Some(Cardinality(gone))
             /\ StatsOf(cache', now).expired_entries = 0
             /\ StatsOf(cache', now).total_entries =
                   StatsOf(cache, now).total_entries - Cardinality(gone)]_vars

\* a sweep removed one entry and left the other, which is not expired
C17_Witness ==
    /\ cret.op = "cleanup_expired" /\ cret.ret = Some(1)
    /\ \E k \in CacheKeys : cache[k] # None /\ cache[k][1].expires_at >= now

\* C18: delete(key) returns true and removes the entry if the key has one,
\* and returns false and changes nothing otherwise; afterwards the key has
\* no entry, so get(key) is absent; get on a key with no entry returns
\* absent and changes nothing. Both always return.
C18_DeleteAndMissing ==
    [][\A k \in CacheKeys :
          /\ CacheDelete(k) =>
                /\ cret'.ret = Some(cache[k] # None)
                /\ cache'[k] = None
                /\ \A j \in CacheKeys \ {k} : cache'[j] = cache[j]
          /\ (CacheGet(k) /\ cache[k] = None) =>
                (cret'.ret = None /\ cache' = cache)
          /\ (CacheDelete(k) /\ cache[k] = None) =>
                (cret'.ret = Some(FALSE) /\ cache' = cache)]_vars

\* an entry was deleted while the other key still has one
C18_Witness ==
    /\ cret.op = "delete" /\ cret.stored /\ cret.ret = Some(TRUE)
    /\ cache[cret.key] = None
    /\ \E k \in CacheKeys : cache[k] # None

\* C19: at every moment stats() would report total = active + expired,
\* with total the number of stored entries and expired the number of
\* stored entries past their expires_at; stats() returns that report and
\* changes no entry.
C19_StatsSnapshot ==
    /\ [](LET st == StatsOf(cache, now) IN
          /\ st.total_entries = st.active_entries + st.expired_entries
          /\ st.total_entries = Cardinality({k \in CacheKeys : cache[k] # None})
          /\ st.expired_entries =
                Cardinality({k \in CacheKeys :
                                cache[k] # None /\ now > cache[k][1].expires_at}))
    /\ [][Stats => (cache' = cache /\ cret'.ret = Some(StatsOf(cache, now)))]_vars

\* stats() reported two entries, one of them expired and not yet removed
C19_Witness ==
    /\ cret.op = "stats"
    /\ cret.ret = Some([total_entries |-> 2, expired_entries |-> 1,
                        active_entries |-> 1])

\* ------------------------------------------------ permits of failed calls
\* outcomes of the GET: success, the failures of the taxonomy
PermitOutcomes ==
    {Response(200, None, TRUE), Response(404, None, FALSE),
     Response(503, Some(<<"5">>), FALSE), Response(500, None, FALSE),
     Transport("timeout"), Transport("connect_error")}

\* One directly constructed client shared by the tasks, whose requests
\* succeed or fail in each of the ways above.
NextPermit ==
    \/ \E t \in Tasks, r \in LifeRequests : Call(t, r)
    \/ \E t \in Tasks : LockResume(t)
    \/ \E t \in Tasks : SleepDone(t)
    \/ \E t \in Tasks, out \in PermitOutcomes : Respond(t, out)
    \/ Tick

SpecPermit == Init /\ [][NextPermit]_vars

\* C20: a request that passed validation has written _last_request_time
\* in the step that issued its GET; the outcome of the GET, a failure
\* included, leaves _last_request_time and the granted permits as they
\* are; so the next permit on that client is at least 1/rate_limit after
\* the one of the failed request.
C20_FailedCallConsumesPermit ==
    [][\A t \in Tasks :
          /\ (pc[t] # "in_flight" /\ pc'[t] = "in_flight") =>
                /\ last'[held[t]] = now
                /\ grantLog'[held[t]] = Append(grantLog[held[t]], now)
          /\ \A out \in PermitOutcomes :
                (Respond(t, out) /\ RequestResult(out).kind # "ok") =>
                   /\ result'[t].kind \in Taxonomy
                   /\ last' = last /\ grantLog' = grantLog
                   /\ last[held[t]] = grantLog[held[t]][Len(grantLog[held[t]])]
          /\ \A c \in ClientIds :
                (grantLog'[c] # grantLog[c] /\ grantLog[c] # <<>>
                    /\ client[c].rate_limit > 0) =>
                   client[c].rate_limit * (last'[c] - last[c]) >= OneSecond]_vars

\* two requests at one per second both timed out; the second was granted
\* its permit a second after the first
C20_Witness ==
    /\ client[1].rate_limit = 1
    /\ ops = 2 /\ Len(grantLog[1]) = 2
    /\ \A t \in Tasks : pc[t] = "idle" /\ result[t].kind = "TimeoutError"
    /\ grantLog[1][2] - grantLog[1][1] >= OneSecond

\* ------------------------------------------------- the limiter, scheduled
\* a call is started only while the clock of the run has room left for the
\* sleeps of all the callers
RoomToSleep == now + NumTasks * OneSecond <= EndOfTime

\* a coroutine is ready to run: handed the lock, or its sleep is over
Ready(t) == pc[t] = "locked" \/ (pc[t] = "sleeping" /\ now >= wake[t])

\* One directly constructed client shared by the tasks. The event loop
\* runs every coroutine that is ready within the tick in which it became
\* ready, and the clock advances.
NextFair ==
    \/ \E t \in Tasks, r \in LifeRequests : (RoomToSleep /\ Call(t, r))
    \/ \E t \in Tasks : LockResume(t)
    \/ \E t \in Tasks : SleepDone(t)
    \/ \E t \in Tasks, out \in LifeOutcomes : Respond(t, out)
    \/ ((\A t \in Tasks : ~Ready(t)) /\ Tick)

SpecFair ==
    /\ Init /\ [][NextFair]_vars
    /\ WF_vars((\A t \in Tasks : ~Ready(t)) /\ Tick)
    /\ \A t \in Tasks : WF_vars(LockResume(t)) /\ WF_vars(SleepDone(t))

\* C21: a caller that is inside _rate_limit (queued on the lock, handed the
\* lock, or sleeping with it) eventually leaves it, with its permit or
\* with the exception raised there, and whenever no caller is inside the
\* lock is free.
C21_LimiterLiveness ==
    /\ \A t \in Tasks :
          (pc[t] \in {"lock_wait", "locked", "sleeping"})
             ~> (pc[t] \in {"idle", "in_flight"})
    /\ [](\A c \in ClientIds :
             (\A t \in Tasks : ~(held[t] = c /\ InCriticalSection(t)))
                => (lockHolder[c] = 0 /\ lockWaiters[c] = <<>>))

\* a caller queued behind a sleeping one has been handed the lock and
\* sleeps in turn, after two permits were granted
C21_Witness ==
    \E t \in Tasks :
        /\ pc[t] = "sleeping" /\ lockHolder[held[t]] = t
        /\ Len(grantLog[held[t]]) = 2
        /\ ops = 3

\* ------------------------------------------------------------ MBIDUtils
\* arguments of the MBIDUtils functions: None, an int, or a str
PyNone == [type |-> "none", n |-> 0, s |-> <<>>]
PyNumber(n) == [type |-> "int", n |-> n, s |-> <<>>]
PyStr(s) == [type |-> "str", n |-> 0, s |-> s]

\* bool(x) of such a value
PyBool(a) ==
    CASE a.type = "none" -> FALSE
      [] a.type = "int" -> a.n # 0
      [] a.type = "str" -> a.s # <<>>

\* str.lower() over the letters
UpperLetters == <<"A", "B", "C", "D", "E", "F", "G", "H", "I", "J", "K", "L", "M",
                  "N", "O", "P", "Q", "R", "S", "T", "U", "V", "W", "X", "Y", "Z">>
LowerLetters == <<"a", "b", "c", "d", "e", "f", "g", "h", "i", "j", "k", "l", "m",
                  "n", "o", "p", "q", "r", "s", "t", "u", "v", "w", "x", "y", "z">>
LowerChar(ch) ==
    IF \E i \in 1..26 : UpperLetters[i] = ch
    THEN LowerLetters[CHOOSE i \in 1..26 : UpperLetters[i] = ch]
    ELSE ch
PyLower(s) == [i \in 1..Len(s) |-> LowerChar(s[i])]

\* MBIDUtils.validate_mbid
validate_mbid(mbid) ==
    IF ~PyBool(mbid) \/ mbid.type # "str"
    THEN FALSE
    ELSE MbidPatternMatch(PyStrip(mbid.s))

\* MBIDUtils.normalize_mbid: what it returns or raises
normalize_mbid(mbid) ==
    IF ~validate_mbid(mbid)
    THEN [raised |-> "ValueError", value |-> <<>>]
    ELSE [raised |-> "", value |-> PyLower(PyStrip(mbid.s))]

\* a call of MBIDUtils.validate_mbid
CallValidateMbid(a) ==
    /\ ucall' = [fn |-> "validate_mbid", arg |-> Some(a),
                 ret |-> Some([raised |-> "", value |-> validate_mbid(a)])]
    /\ UNCHANGED <<now, clientVars, managerVars, taskVars, logVars, cacheVars, env>>

\* a call of MBIDUtils.normalize_mbid
CallNormalizeMbid(a) ==
    /\ ucall' = [fn |-> "normalize_mbid", arg |-> Some(a),
                 ret |-> Some(normalize_mbid(a))]
    /\ UNCHANGED <<now, clientVars, managerVars, taskVars, logVars, cacheVars, env>>

\* whitespace put before and after an identifier
PadSamples == {<<>>, <<" ">>, <<"\n">>, <<"\t", " ">>}
\* the identifiers of the tests, well formed and malformed, bare and padded,
\* and values that are not strings
UtilArgs ==
    {PyNone, PyNumber(123), PyNumber(0)}
       \cup {PyStr(pre \o m \o post) :
                pre \in PadSamples, m \in MbidSamples, post \in PadSamples}

\* The MBIDUtils functions, called in any order on any of the arguments.
InitMbid ==
    /\ InitCommon
    /\ client = [c \in ClientIds |-> NewClient(None, DefaultRateLimit, DefaultTimeout)]
    /\ built = [c \in ClientIds |-> FALSE]
    /\ mclient = 0
    /\ held = [t \in Tasks |-> 0]

NextMbid ==
    \/ \E a \in UtilArgs : CallValidateMbid(a)
    \/ \E a \in UtilArgs : CallNormalizeMbid(a)

SpecMbid == InitMbid /\ [][NextMbid]_vars

\* C22: validate_mbid(s) returns, and returns true exactly when s is a
\* string that is 8-4-4-4-12 hexadecimal digits with hyphens, in either
\* case, and nothing else.
C22_ValidateMbid ==
    ucall.fn = "validate_mbid" =>
       /\ ucall.ret[1].raised = ""
       /\ ucall.ret[1].value =
             (ucall.arg[1].type = "str" /\ WellFormedMbid(ucall.arg[1].s))

\* C23: normalize_mbid(s) returns exactly when validate_mbid(s) is true,
\* and then returns a lower-case identifier that validates and that
\* normalize_mbid returns unchanged; otherwise it raises ValidationError.
C23_NormalizeMbid ==
    ucall.fn = "normalize_mbid" =>
       LET a == ucall.arg[1]
           r == ucall.ret[1]
       IN IF validate_mbid(a)
          THEN /\ r.raised = ""
               /\ r.value = PyLower(r.value)
               /\ validate_mbid(PyStr(r.value))
               /\ normalize_mbid(PyStr(r.value)) = r
          ELSE r.raised = "ValidationError"

\* ---------------------------------------------- endpoint and parameters
\* the entity an entry point asks for
EntityOf(r) ==
    CASE r.op \in {"search_artist", "lookup_artist"} -> "artist"
      [] r.op \in {"search_release", "lookup_release",
                   "browse_artist_releases"} -> "release"
      [] r.op \in {"search_recording", "lookup_recording",
                   "browse_artist_recordings"} -> "recording"
      [] r.op \in {"search_release_group", "lookup_release_group"} -> "release-group"
      [] r.op \in GenericOps -> r.entity_type

\* the endpoint passed to _make_request: <<entity>> stands for "entity",
\* <<entity, mbid>> for f"{entity}/{mbid}"
Endpoint(r) ==
    IF r.op \in LookupOps \cup GenericOps
    THEN <<EntityOf(r), r.mbid>>
    ELSE <<EntityOf(r)>>

\* the params dict an entry point passes to _make_request (the optional
\* inc, release_type and release_status lists not given)
EntryParams(r) ==
    CASE r.op \in SearchOps ->
            [query |-> r.query, limit |-> r.limit, offset |-> r.offset]
      [] r.op \in BrowseOps ->
            [artist |-> r.mbid, limit |-> r.limit, offset |-> r.offset]
      [] r.op \in LookupOps \cup GenericOps -> <<>>

MakeRequestParamsAsGiven(params) == params
\* _make_request: params["fmt"] = "json"
MakeRequestParams(params) ==
    [k \in (DOMAIN params) \cup {"fmt"} |-> IF k = "fmt" THEN "json" ELSE params[k]]

\* the query parameters of the GET issued for request r
IssuedParams(r) == MakeRequestParams(EntryParams(r))

\* the categories C24 allows for the generic lookup
C24_AllowList ==
    {"artist", "release", "recording", "release-group", "label", "work",
     "area", "place", "event", "instrument", "series", "url"}

C24_Category(r) ==
    CASE r.op = "lookup_artist" -> "artist"
      [] r.op = "lookup_release" -> "release"
      [] r.op = "lookup_recording" -> "recording"
      [] r.op = "lookup_release_group" -> "release-group"
      [] r.op = "lookup_by_mbid" -> r.entity_type

\* C24: a lookup fails with ValidationError if its identifier is not well
\* formed, the generic lookup also if its category is not in the allow-list;
\* otherwise validation passes and the endpoint is {category}/{id}.
C24_LookupValidation ==
    [][\A r \in AllRequests :
          (Call(1, r) /\ r.op \in LookupOps \cup GenericOps) =>
             IF \/ ~WellFormedMbid(r.mbid)
                \/ r.op \in GenericOps /\ r.entity_type \notin C24_AllowList
             THEN result'[1].kind = "ValidationError"
             ELSE /\ result'[1].kind # "ValidationError"
                  /\ Endpoint(r) = <<C24_Category(r), r.mbid>>]_vars

\* C26: the query parameters of every GET that is issued contain fmt with
\* the value json, whatever the operation and its parameters, and the
\* parameters the entry point built are sent with it as they are.
C26_FmtJson ==
    \A t \in Tasks :
        pc[t] = "in_flight" =>
           /\ "fmt" \in DOMAIN IssuedParams(req[t])
           /\ IssuedParams(req[t])["fmt"] = "json"
           /\ \A k \in DOMAIN EntryParams(req[t]) :
                 IssuedParams(req[t])[k] = EntryParams(req[t])[k]

\* a browse request with its three parameters is in flight
C26_Witness ==
    /\ pc[1] = "in_flight"
    /\ req[1].op = "browse_artist_recordings"
    /\ DOMAIN IssuedParams(req[1]) = {"artist", "limit", "offset", "fmt"}

\* --------------------------------------------- one operation, one request
\* outcomes of the GET: two successes with different payloads, a 404, a
\* body that is not JSON, a timeout
RequestOutcomes ==
    {WithPayload(Response(200, None, TRUE), "p1"),
     WithPayload(Response(201, None, TRUE), "p2"),
     Response(404, None, FALSE), Response(200, None, FALSE),
     Transport("timeout")}

\* One directly constructed client shared by the tasks.
NextRequest ==
    \/ \E t \in Tasks, r \in CoreRequests : Call(t, r)
    \/ \E t \in Tasks : LockResume(t)
    \/ \E t \in Tasks : SleepDone(t)
    \/ \E t \in Tasks, out \in RequestOutcomes : Respond(t, out)
    \/ Tick

SpecRequest == Init /\ [][NextRequest]_vars

\* C25: an operation that passed validation does not end before its GET
\* is issued; a permit is written only by a task leaving _rate_limit, in
\* the step in which its GET is issued (the write first), one permit and
\* one GET for the operation; the outcome of the GET ends the operation
\* with no further permit or GET; an operation that fails validation takes
\* no permit and issues no GET; no step of an operation touches the cache;
\* a 2xx response whose body parses is returned as response.json() gave it.
C25_OnePermitOneGet ==
    [][/\ \A t \in Tasks :
            /\ (pc[t] # "in_flight" /\ pc'[t] = "in_flight") =>
                  /\ grantLog'[held[t]] = Append(grantLog[held[t]], now)
                  /\ getLog' = Window(Append(getLog, <<now, held[t]>>))
            /\ (pc[t] \in {"lock_wait", "locked", "sleeping"}) => pc'[t] # "idle"
            /\ \A r \in CoreRequests :
                  Call(t, r) =>
                     /\ cacheVars' = cacheVars
                     /\ ~ValidationRaises(r) => pc'[t] # "idle"
                     /\ ValidationRaises(r) =>
                           (grantLog' = grantLog /\ getLog' = getLog)
            /\ \A out \in RequestOutcomes :
                  Respond(t, out) =>
                     /\ grantLog' = grantLog /\ getLog' = getLog
                     /\ cacheVars' = cacheVars
                     /\ pc'[t] = "idle"
                     /\ (IsSuccess(out.status) /\ out.json_ok) =>
                           (result'[t].kind = "ok"
                               /\ result'[t].payload = out.payload)
       /\ \A c \in ClientIds :
            grantLog'[c] # grantLog[c] =>
               /\ grantLog'[c] = Append(grantLog[c], now)
               /\ cacheVars' = cacheVars
               /\ \E t \in Tasks :
                     /\ held[t] = c
                     /\ pc[t] \in {"idle", "locked", "sleeping"}
                     /\ pc'[t] = "in_flight"
       /\ getLog' # getLog => \E c \in ClientIds : grantLog'[c] # grantLog[c]]_vars

\* ------------------------------------------------------- configuration
\* the environment of the process: nothing set, MUSICBRAINZ_USER_AGENT set
\* to the empty string, the three variables set
EnvSamples ==
    {NoEnv,
     [user_agent |-> Some(""), rate_limit |-> None, timeout |-> None],
     [user_agent |-> Some("TestAgent/1.0"), rate_limit |-> Some(2),
      timeout |-> Some(15)]}

\* session configurations: none, a user agent, an empty user agent, a rate
\* limit, all three fields
SessionConfigs ==
    {None, Some([user_agent |-> "Agent/1"]), Some([user_agent |-> ""]),
     Some([rate_limit |-> 2]),
     Some([user_agent |-> "Agent/2", rate_limit |-> 2, timeout |-> 15])}

\* the user_agent argument of a direct construction: absent, empty, given
UserAgentArgs == {None, Some(""), Some("Agent/3")}

\* MusicBrainzClient(user_agent=ua) constructed by task t for its own use
Construct(t, ua) ==
    /\ pc[t] = "idle" /\ CanBuild
    /\ built' = [built EXCEPT ![NewId] = TRUE]
    /\ client' = [client EXCEPT ![NewId] = NewClient(ua, DefaultRateLimit, DefaultTimeout)]
    /\ held' = [held EXCEPT ![t] = NewId]
    /\ UNCHANGED <<now, env, ucall, cacheVars, conn, last, lockHolder, lockWaiters,
                   acloses, opens, managerVars, pc, wake, req, result, ops, gc,
                   gets, logVars>>

\* _ensure_client: the headers of the httpx.AsyncClient of client c
Headers(c) == [UserAgent |-> client[c].user_agent, Accept |-> "application/json"]

\* The server process under each environment: started by main() or used as
\* a library with no client yet.
InitConfig ==
    /\ InitClients
    /\ env \in EnvSamples
    /\ ucall = NoUcall
    /\ cache = [k \in CacheKeys |-> None]
    /\ default_ttl = GlobalDefaultTtl
    /\ cret = NoRet
    /\ client = [c \in ClientIds |-> ConfiguredClient(None)]
    /\ \E started \in BOOLEAN :
         /\ built = [c \in ClientIds |-> started /\ c = 1]
         /\ mclient = IF started THEN 1 ELSE 0
    /\ held = [t \in Tasks |-> 0]

NextConfig ==
    \/ \E cfg \in SessionConfigs : Dispatch(cfg)
    \/ \E t \in Tasks, cfg \in SessionConfigs : GetClient(t, cfg)
    \/ \E t \in Tasks : GetClientResume(t)
    \/ \E t \in Tasks, ua \in UserAgentArgs : Construct(t, ua)

SpecConfig == InitConfig /\ [][NextConfig]_vars

\* C27: every constructed client, whether built directly with no user
\* agent, an empty one or a given one, or by get_client from the session
\* configuration or the environment, has a non-empty user_agent, and so
\* does the User-Agent header of its connection.
C27_UserAgentNeverEmpty ==
    \A c \in ClientIds :
        built[c] => (client[c].user_agent # "" /\ Headers(c).UserAgent # "")

\* with MUSICBRAINZ_USER_AGENT empty, the managed client was built from a
\* session configuration whose user agent is empty and has its connection
\* open, and a task holds a client it constructed with an empty user agent
C27_Witness ==
    /\ env.user_agent = Some("")
    /\ mclient # 0 /\ conn[mclient] = "open"
    /\ client_config = Some([user_agent |-> ""])
    /\ client[mclient].user_agent = ClientDefaultUserAgent
    /\ \E t \in Tasks :
          /\ held[t] # 0 /\ held[t] # mclient /\ built[held[t]]
          /\ conn[held[t]] = "none"

\* ------------------------------------------------ permit wait computation
\* task t starts the body of _rate_limit in this step: it found the lock
\* free, or resumes having been handed it
C28_Acquires(t) ==
    \/ pc[t] = "idle" /\ pc'[t] \in {"sleeping", "in_flight"}
    \/ pc[t] = "locked" /\ pc'[t] # "locked"

\* C28: with elapsed = now - _last_request_time and min_interval =
\* 1 / rate_limit, an acquire with elapsed < min_interval sleeps for
\* exactly min_interval - elapsed and writes nothing before the sleep is
\* over; an acquire with elapsed >= min_interval, the first one on a fresh
\* client included, does not sleep; and in both cases _last_request_time
\* is the current time when the acquire returns.
C28_PermitWait ==
    [][\A t \in Tasks :
          LET c == held[t]
              elapsed == now - last[c]
              min_interval == MinInterval(client[c].rate_limit)
          IN client[c].rate_limit # 0 =>
              /\ (C28_Acquires(t) /\ elapsed < min_interval) =>
                    /\ pc'[t] = "sleeping"
                    /\ wake'[t] - now = min_interval - elapsed
                    /\ last'[c] = last[c]
              /\ (C28_Acquires(t) /\ (elapsed >= min_interval \/ last[c] = 0)) =>
                    /\ pc'[t] # "sleeping"
                    /\ last'[c] = now
              /\ (pc[t] = "sleeping" /\ pc'[t] # "sleeping") =>
                    /\ now >= wake[t]
                    /\ last'[c] = now]_vars

\* at one request per second a task acquires half a second after the
\* previous permit and sleeps for the remaining half second
C28_Witness ==
    /\ client[1].rate_limit = 1
    /\ \E t \in Tasks :
          /\ pc[t] = "sleeping" /\ held[t] = 1
          /\ now - last[1] = 1
          /\ wake[t] = now + 1

\* ------------------------------------------- concurrent get_client calls
\* C29: whatever the interleaving of the get_client calls, a replaced
\* client's connection is released exactly once, and once no call is
\* suspended in close() every client whose connection is open is the
\* managed one (no client built by get_client is left open and unmanaged).
C29_ConcurrentAcquisition ==
    /\ \A c \in ClientIds : acloses[c] <= opens[c]
    /\ (\A t \in Tasks : pc[t] # "gc_closing") =>
          \A c \in ClientIds :
              /\ (opens[c] > 0 /\ c # mclient) => acloses[c] = opens[c]
              /\ conn[c] = "open" => c = mclient

\* ------------------------------------------- effective configuration
\* the configuration a get_client(cfg) call is to use: the explicit
\* override if one is given, otherwise the last global override, if any
C30_Layer(cfg) ==
    IF cfg # None /\ DOMAIN cfg[1] # {} THEN cfg
    ELSE IF current_config # None /\ DOMAIN current_config[1] # {} THEN current_config
    ELSE None

\* the process default of a field: the environment variable, or the
\* built-in default when it is not set
C30_ProcessDefault(field) ==
    CASE field = "user_agent" -> GetEnv("user_agent", DefaultUserAgent)
      [] field = "rate_limit" -> GetEnv("rate_limit", DefaultRateLimit)
      [] field = "timeout" -> GetEnv("timeout", DefaultTimeout)

\* the value of a field under a chosen configuration
C30_Field(layer, field) ==
    IF layer # None /\ field \in DOMAIN layer[1]
    THEN layer[1][field] ELSE C30_ProcessDefault(field)

\* the user agent of a client built for a chosen configuration; with
\* fallback, an empty value is replaced by the client's own default
C30_UserAgent(layer, fallback) ==
    IF fallback /\ C30_Field(layer, "user_agent") = ""
    THEN ClientDefaultUserAgent ELSE C30_Field(layer, "user_agent")

C30_BuiltFor(c, layer, fallback) ==
    /\ c.user_agent = C30_UserAgent(layer, fallback)
    /\ c.rate_limit = C30_Field(layer, "rate_limit")
    /\ c.timeout = C30_Field(layer, "timeout")

\* a get_client step: the managed client is kept exactly when the chosen
\* configuration equals the stored one, and a client built in the step, or
\* after close() for the configuration chosen at the call, has the fields
\* of the chosen configuration
C30_Step(fallback) ==
    \A t \in Tasks :
        /\ \A cfg \in SessionConfigs :
              GetClient(t, cfg) =>
                 /\ mclient # 0 =>
                       ((held'[t] = mclient /\ mclient' = mclient /\ pc'[t] = "idle")
                           <=> C30_Layer(cfg) = client_config)
                 /\ mclient' # mclient =>
                       C30_BuiltFor(client'[mclient'], C30_Layer(cfg), fallback)
                 /\ pc'[t] = "gc_closing" => gc'[t].eff = C30_Layer(cfg)
        /\ GetClientResume(t) =>
              C30_BuiltFor(client'[mclient'], gc[t].eff, fallback)

ConfigKeys == {"user_agent", "rate_limit", "timeout"}
EmptyCfg == [user_agent |-> None, rate_limit |-> None, timeout |-> None]

\* float(str) for texts without a fraction or an exponent; None stands
\* for ValueError
PyFloat(s) == PyInt(s)

\* base64.b64decode(s).decode('utf-8') for the sampled values of the config
\* parameter; "error" stands for binascii.Error
B64DecodeUtf8(s) ==
    CASE s = "eyJyYXRlX2xpbWl0IjogM30=" -> "{\"rate_limit\": 3}"
      [] s = "eyJ1c2VyX2FnZW50IjogIkIiLCAidGltZW91dCI6IDV9"
            -> "{\"user_agent\": \"B\", \"timeout\": 5}"
      [] s = "bnVsbA==" -> "null"
      [] s = "e30=" -> "{}"
      [] s = "bm90IGpzb24=" -> "not json"
      [] OTHER -> "error"

\* json.loads(text) or {} for those texts; ok is FALSE for JSONDecodeError
JsonLoads(text) ==
    CASE text = "{\"rate_limit\": 3}" ->
            [ok |-> TRUE, value |-> [EmptyCfg EXCEPT !.rate_limit = Some(3)]]
      [] text = "{\"user_agent\": \"B\", \"timeout\": 5}" ->
            [ok |-> TRUE,
             value |-> [EmptyCfg EXCEPT !.user_agent = Some("B"), !.timeout = Some(5)]]
      [] text = "null" -> [ok |-> TRUE, value |-> EmptyCfg]
      [] text = "{}" -> [ok |-> TRUE, value |-> EmptyCfg]
      [] OTHER -> [ok |-> FALSE, value |-> EmptyCfg]

\* the try block of lines 83-89: the dict decoded from the config
\* parameter, nothing if decoding fails
DecodedConfig(config_param) ==
    IF B64DecodeUtf8(config_param) = "error" THEN EmptyCfg
    ELSE JsonLoads(B64DecodeUtf8(config_param)).value

\* d.update(other): the keys of other replace those of d
DictUpdate(d, other) ==
    [k \in ConfigKeys |-> IF other[k] # None THEN other[k] ELSE d[k]]

\* lines 68-80: the flat parameters; a number that float() rejects is ignored
FlatConfig(query_params) ==
    [user_agent |-> query_params.user_agent,
     rate_limit |-> IF query_params.rate_limit = None THEN None
                    ELSE PyFloat(query_params.rate_limit[1]),
     timeout |-> IF query_params.timeout = None THEN None
                 ELSE PyFloat(query_params.timeout[1])]

\* parse_config_from_query_params
parse_config_from_query_params(query_params) ==
    IF query_params.config # None /\ query_params.config[1] # ""
    THEN DictUpdate(FlatConfig(query_params), DecodedConfig(query_params.config[1]))
    ELSE FlatConfig(query_params)

\* a call of parse_config_from_query_params
CallParseConfig(q) ==
    /\ ucall' = [fn |-> "parse_config", arg |-> Some(q),
                 ret |-> Some(parse_config_from_query_params(q))]
    /\ UNCHANGED <<now, clientVars, managerVars, taskVars, logVars, cacheVars, env>>

\* the query strings of a request: each flat parameter absent, valid or
\* (for the numbers) not a number; the config parameter absent, empty, not
\* base64, not JSON, null, an empty object, or an object with some keys
QueryParamSamples ==
    [user_agent : {None, Some("A"), Some("")},
     rate_limit : {None, Some(<<"2">>), Some(<<"x">>)},
     timeout : {None, Some(<<"1", "5">>), Some(<<"x">>)},
     config : {None, Some(""), Some("abc"), Some("bm90IGpzb24="),
               Some("bnVsbA=="), Some("e30="),
               Some("eyJyYXRlX2xpbWl0IjogM30="),
               Some("eyJ1c2VyX2FnZW50IjogIkIiLCAidGltZW91dCI6IDV9")}]

NextParse == \E q \in QueryParamSamples : CallParseConfig(q)

SpecParse == InitMbid /\ [][NextParse]_vars

\* C31: in the parsed configuration every key given as a valid flat
\* parameter has the value of the flat parameter, and a key not so given
\* has the value of the base64 config parameter, if that decodes and sets
\* it, and is absent otherwise.
C31_FlatPrecedence ==
    ucall.fn = "parse_config" =>
       LET q == ucall.arg[1]
           flat == FlatConfig(q)
           fallback == IF q.config = None THEN EmptyCfg
                       ELSE DecodedConfig(q.config[1])
       IN \A k \in ConfigKeys :
             ucall.ret[1][k] = (IF flat[k] # None THEN flat[k] ELSE fallback[k])

\* ------------------------------------------ sub-resources and filters
\* the longest include or filter list given to an entry point
MaxList == 3

\* a list argument that is given and not empty (if inc:)
ListGiven(l) == l # None /\ l[1] # <<>>

PyJoinFirstOnly(sep, list) == IF list = <<>> THEN <<>> ELSE list[1]
\* sep.join(list): the elements in order with sep between neighbours
RECURSIVE PyJoin(_, _)
PyJoin(sep, list) ==
    IF list = <<>> THEN <<>>
    ELSE IF Len(list) = 1 THEN list[1]
    ELSE list[1] \o sep \o PyJoin(sep, Tail(list))

\* the keys an entry point adds to params for its optional lists: inc for
\* the lookups, type and status for browse_artist_releases
OptionalKeys(r, inc, release_type, release_status) ==
    (IF r.op \in LookupOps \cup GenericOps /\ ListGiven(inc) THEN {"inc"} ELSE {})
    \cup (IF r.op = "browse_artist_releases" /\ ListGiven(release_type)
          THEN {"type"} ELSE {})
    \cup (IF r.op = "browse_artist_releases" /\ ListGiven(release_status)
          THEN {"status"} ELSE {})

\* the params dict an entry point passes to _make_request when called with
\* the optional lists
EntryParamsWith(r, inc, release_type, release_status) ==
    [k \in (DOMAIN EntryParams(r))
             \cup OptionalKeys(r, inc, release_type, release_status) |->
        CASE k = "inc" -> PyJoin(<<"+">>, inc[1])
          [] k = "type" -> PyJoin(<<"|">>, release_type[1])
          [] k = "status" -> PyJoin(<<"|">>, release_status[1])
          [] OTHER -> EntryParams(r)[k]]

\* a call of a lookup or browse entry point with a well-formed identifier,
\* up to the GET: the query parameters it issues
CallWithLists(r, inc, release_type, release_status) ==
    /\ ucall' = [fn |-> "issued_params",
                 arg |-> Some([r |-> r, inc |-> inc, release_type |-> release_type,
                               release_status |-> release_status]),
                 ret |-> Some(MakeRequestParams(
                            EntryParamsWith(r, inc, release_type, release_status)))]
    /\ UNCHANGED <<now, clientVars, managerVars, taskVars, logVars, cacheVars, env>>

\* names of sub-resources and filter values, and the lists of them
ListElements == {<<"a">>, <<"b", "c">>}
ListSamples ==
    {None} \cup {Some(l) : l \in UNION {[1..n -> ListElements] : n \in 0..MaxList}}

LookupCalls ==
    {Req(op, <<>>, 25, 0, MbidLower, "") : op \in LookupOps}
    \cup {Req("lookup_by_mbid", <<>>, 25, 0, MbidLower, "label")}
BrowseCalls == {Req(op, <<>>, 25, 0, MbidLower, "") : op \in BrowseOps}

NextLists ==
    \/ \E r \in LookupCalls, inc \in ListSamples : CallWithLists(r, inc, None, None)
    \/ \E r \in BrowseCalls, ty \in ListSamples, st \in ListSamples :
          r.op = "browse_artist_releases" /\ CallWithLists(r, None, ty, st)
    \/ \E r \in BrowseCalls :
          r.op = "browse_artist_recordings" /\ CallWithLists(r, None, None, None)

SpecLists == InitMbid /\ [][NextLists]_vars

\* where the i-th element starts in the joined string, less one
RECURSIVE C32_Offset(_, _)
C32_Offset(l, i) ==
    IF i = 1 THEN 0 ELSE C32_Offset(l, i - 1) + Len(l[i - 1]) + 1

\* v is the elements of the non-empty list l in order, sep between
\* neighbours and nothing else
C32_IsJoin(v, sep, l) ==
    /\ Len(v) = C32_Offset(l, Len(l)) + Len(l[Len(l)])
    /\ \A i \in 1..Len(l) :
          /\ SubSeq(v, C32_Offset(l, i) + 1, C32_Offset(l, i) + Len(l[i])) = l[i]
          /\ i > 1 => v[C32_Offset(l, i)] = sep

\* key is sent exactly when list is given and not empty, and then as the
\* join of the list by sep
C32_Sent(p, key, sep, list) ==
    IF ListGiven(list)
    THEN key \in DOMAIN p /\ C32_IsJoin(p[key], sep, list[1])
    ELSE key \notin DOMAIN p

\* C32: a lookup sends inc exactly when the include list is given and not
\* empty, as its elements in order joined by '+'; browse_artist_releases
\* sends type and status exactly when the filter list is given and not
\* empty, as its elements in order joined by '|'; no entry point sends a
\* key of the other kind.
C32_ListEncoding ==
    ucall.fn = "issued_params" =>
       LET a == ucall.arg[1]
           p == ucall.ret[1]
       IN IF a.r.op \in LookupOps \cup GenericOps
          THEN /\ C32_Sent(p, "inc", "+", a.inc)
               /\ "type" \notin DOMAIN p /\ "status" \notin DOMAIN p
          ELSE /\ C32_Sent(p, "type", "|", a.release_type)
               /\ C32_Sent(p, "status", "|", a.release_status)
               /\ "inc" \notin DOMAIN p

\* lookup_artist with three sub-resources sent as one inc parameter
C32_Witness ==
    /\ ucall.fn = "issued_params"
    /\ ucall.arg[1].r.op = "lookup_artist"
    /\ ucall.arg[1].inc = Some(<<(<<"a">>), (<<"b", "c">>), (<<"a">>)>>)
    /\ ucall.ret[1]["inc"] = <<"a", "+", "b", "c", "+", "a">>
    /\ DOMAIN ucall.ret[1] = {"inc", "fmt"}

\* ------------------------------------------------ frame of the cache
\* the keys whose entry (value or expiry, presence included) a step changes
C33_Changed == {k \in CacheKeys : cache'[k] # cache[k]}

\* C33: get(k), also when it evicts an expired k, set(k, ...) and
\* delete(k) leave the entry of every other key as it was; a step that
\* changes the entries of several keys is clear() or cleanup_expired();
\* stats() and the passing of time change no entry.
C33_PerKeyFrame ==
    [][/\ \A k \in CacheKeys :
            (\/ CacheGet(k)
             \/ CacheDelete(k)
             \/ \E value \in CacheValues, ttl \in TtlSamples : CacheSet(k, value, ttl))
               => C33_Changed \subseteq {k}
       /\ Cardinality(C33_Changed) > 1 => (CacheClear \/ CleanupExpired)
       /\ (Stats \/ Tick) => C33_Changed = {}]_vars

\* get has just evicted an expired entry while the other key's entry,
\* expired as well, is still stored
C33_Witness ==
    /\ cret.op = "get" /\ cret.stored /\ cret.ret = None
    /\ cache[cret.key] = None
    /\ \E j \in CacheKeys \ {cret.key} :
          cache[j] # None /\ now > cache[j][1].expires_at

\* ---------------------------------------------- the tools endpoint
\* the object constructed after NewId when two are constructed in one step
SecondNewId ==
    CHOOSE c \in ClientIds :
        /\ ~built[c] /\ c # NewId
        /\ \A d \in 1..(c - 1) : built[d] \/ d = NewId
CanBuildTwo == \E c, d \in ClientIds : c # d /\ ~built[c] /\ ~built[d]

\* A GET /tools request with query parameters cfg passes the configuration
\* middleware, which records a non-empty cfg and awaits the endpoint.
ToolsRequest(t, cfg) ==
    /\ pc[t] = "idle" /\ CanBuild
    /\ current_config' = (IF Truthy(cfg) THEN cfg ELSE current_config)
    /\ pc' = [pc EXCEPT ![t] = "tools_pending"]
    /\ gc' = [gc EXCEPT ![t] = [eff |-> cfg, old |-> 0]]
    /\ UNCHANGED <<now, env, ucall, cacheVars, clientVars, mclient, client_config,
                   held, wake, req, result, ops, gets, logVars>>

\* list_tools_endpoint: configure_client_from_env(config) stores a new
\* client in _client without closing the previous one or touching
\* _client_config; get_client(config) then finds that client, which has no
\* connection, and either returns it or replaces it at once.
ToolsEndpoint(t) ==
    /\ pc[t] = "tools_pending"
    /\ LET cfg == gc[t].eff
           eff == EffectiveConfig(cfg)
       IN IF eff = client_config
          THEN /\ CanBuild
               /\ built' = [built EXCEPT ![NewId] = TRUE]
               /\ client' = [client EXCEPT ![NewId] = ConfiguredClient(cfg)]
               /\ mclient' = NewId
               /\ held' = [held EXCEPT ![t] = NewId]
               /\ UNCHANGED <<conn, opens, client_config>>
          ELSE /\ CanBuildTwo
               /\ built' = [built EXCEPT ![NewId] = TRUE, ![SecondNewId] = TRUE]
               /\ client' = [client EXCEPT ![NewId] = ConfiguredClient(cfg),
                                           ![SecondNewId] = ConfiguredClient(eff)]
               /\ conn' = [conn EXCEPT ![SecondNewId] = "open"]
               /\ opens' = [opens EXCEPT ![SecondNewId] = @ + 1]
               /\ mclient' = SecondNewId
               /\ client_config' = StoredConfig(eff)
               /\ held' = [held EXCEPT ![t] = SecondNewId]
    /\ pc' = [pc EXCEPT ![t] = "idle"]
    /\ gc' = [gc EXCEPT ![t] = NoGc]
    /\ UNCHANGED <<now, env, ucall, cacheVars, last, lockHolder, lockWaiters, acloses,
                   current_config, wake, req, result, ops, gets, logVars>>

\* The server process: requests that pass the middleware, tools that call
\* get_client, the tools endpoint, and the shutdown hook.
NextServer ==
    \/ \E cfg \in ShutdownConfigs : Dispatch(cfg)
    \/ \E t \in Tasks, cfg \in ShutdownConfigs : GetClient(t, cfg)
    \/ \E t \in Tasks : GetClientResume(t)
    \/ \E t \in Tasks, cfg \in ShutdownConfigs : ToolsRequest(t, cfg)
    \/ \E t \in Tasks : ToolsEndpoint(t)
    \/ \E t \in Tasks : Cleanup(t)
    \/ \E t \in Tasks : CleanupResume(t)

SpecServer == InitLife /\ [][NextServer]_vars

\* C34: whenever a step stores a new instance over the managed client, the
\* connection of the instance it replaces is not open after the step.
C34_ReplacementReleases ==
    [][(mclient # 0 /\ mclient' # 0 /\ mclient' # mclient)
          => conn'[mclient] # "open"]_vars

\* C35: if a managed client exists, its user_agent, rate_limit and timeout
\* are those of the client configure_client_from_env builds for the stored
\* fingerprint.
C35_FingerprintMatchesClient ==
    mclient # 0 => SameFields(client[mclient], ConfiguredClient(client_config))

\* -------------------------------------------- requests overtaken by close
\* The server process with its clock: tools that get the client and call
\* it, rebuilds, and cleanup(), every GET answered with 200.
OvertakeOutcomes == {Response(200, None, TRUE)}
\* these runs last one second
OvertakeTicks == 2

\* used as a library: no client yet
InitOvertake == InitLife /\ mclient = 0

NextOvertake ==
    \/ \E t \in Tasks, cfg \in ShutdownConfigs : GetClient(t, cfg)
    \/ \E t \in Tasks : GetClientResume(t)
    \/ \E t \in Tasks : Cleanup(t)
    \/ \E t \in Tasks : CleanupResume(t)
    \/ \E t \in Tasks, r \in LifeRequests : Call(t, r)
    \/ \E t \in Tasks : LockResume(t)
    \/ \E t \in Tasks : SleepDone(t)
    \/ \E t \in Tasks, out \in OvertakeOutcomes : Respond(t, out)
    \/ (now < EpochStart + OvertakeTicks /\ Tick)

SpecOvertake == InitOvertake /\ [][NextOvertake]_vars

\* task t waits for its permit on the client it holds
C36_Waiting(t) == pc[t] \in {"lock_wait", "locked", "sleeping"}

\* the connection of t's client was released after t's call began
C36_Overtaken(t) == acloses[held[t]] > closes_at_call[t]

\* task t leaves _rate_limit with its permit in this step
C36_Granted(t) ==
    /\ C36_Waiting(t) /\ ~C36_Waiting(t)'
    /\ grantLog'[held[t]] = Append(grantLog[held[t]], now)

\* C36 as stated: a request whose client was closed while it waited for its
\* permit issues no GET when it gets the permit and fails with the generic
\* API error with status code 0, the permit consumed.
C36_AsStated ==
    [][\A t \in Tasks :
          (C36_Granted(t) /\ C36_Overtaken(t)) =>
             /\ getLog' = getLog
             /\ pc'[t] = "idle"
             /\ result'[t] = Exc("APIError", Some(0), None)
             /\ last'[held[t]] = now]_vars

\* C36, corrected: such a request consumes its permit; it issues its GET
\* exactly when the client has a connection again, one created after the
\* close by a later call on the same client, and otherwise issues no GET
\* and fails with the generic API error with status code 0.
C36_OvertakenRequest ==
    [][\A t \in Tasks :
          (C36_Granted(t) /\ C36_Overtaken(t)) =>
             /\ last'[held[t]] = now
             /\ IF conn[held[t]] = "open"
                THEN /\ opens[held[t]] > acloses[held[t]]
                     /\ getLog' = Window(Append(getLog, <<now, held[t]>>))
                     /\ pc'[t] = "in_flight"
                ELSE /\ getLog' = getLog
                     /\ pc'[t] = "idle"
                     /\ result'[t] = Exc("APIError", Some(0), None)]_vars

\* a request that slept through the close of its client has failed with
\* status code 0, its permit consumed, and nothing has reopened the client
C36_Witness ==
    \E t \in Tasks :
        /\ pc[t] = "idle" /\ held[t] # 0
        /\ C36_Overtaken(t)
        /\ result[t] = Exc("APIError", Some(0), None)
        /\ conn[held[t]] = "none"
        /\ last[held[t]] = now /\ Len(grantLog[held[t]]) = 2
        /\ opens[held[t]] = 1

\* ------------------------------------------- close() is not terminal
\* C37: close() on a client that has no connection releases nothing and
\* opens nothing, in cleanup() and in a rebuild by get_client; a call
\* started on a client after close() cleared its connection creates a new
\* connection and goes on into the rate limiter; and the manager releases
\* only connections of the client it manages and never takes back a client
\* it replaced, so a connection reopened on a replaced client stays open.
C37_CloseNotTerminal ==
    [][\A t \in Tasks :
          /\ (Cleanup(t) /\ mclient # 0 /\ conn[mclient] = "none") =>
                (acloses' = acloses /\ opens' = opens /\ conn' = conn)
          /\ \A cfg \in ShutdownConfigs :
                (GetClient(t, cfg) /\ mclient # 0 /\ conn[mclient] = "none"
                   /\ mclient' # mclient) =>
                   (acloses' = acloses /\ conn'[mclient] = "none"
                      /\ opens'[mclient] = opens[mclient])
          /\ \A r \in LifeRequests :
                (Call(t, r) /\ ~ValidationRaises(r) /\ conn[held[t]] = "none"
                   /\ acloses[held[t]] > 0) =>
                   /\ conn'[held[t]] = "open"
                   /\ opens'[held[t]] = opens[held[t]] + 1
                   /\ acloses' = acloses
                   /\ IF LockFree(held[t])
                      THEN IF NeedsSleep(now - last[held[t]],
                                         MinInterval(client[held[t]].rate_limit))
                           THEN pc'[t] = "sleeping"
                           ELSE /\ pc'[t] = "in_flight"
                                /\ getLog' = Window(Append(getLog, <<now, held[t]>>))
                      ELSE pc'[t] = "lock_wait"
          /\ \A c \in ClientIds :
                /\ acloses'[c] # acloses[c] => c = mclient
                /\ (built[c] /\ mclient # c) => mclient' # c]_vars

\* a task holds a client the manager has released and replaced, and has a
\* request in flight on a connection it reopened after the release
C37_Witness ==
    \E t \in Tasks :
        /\ held[t] # 0 /\ mclient # 0 /\ held[t] # mclient
        /\ pc[t] = "in_flight"
        /\ conn[held[t]] = "open"
        /\ acloses[held[t]] = 1 /\ opens[held[t]] = 2


\* ------------------------------------------ the global override stays
\* what the middleware parses from the requests of these runs: no
\* configuration parameters, a rate limit, a timeout
StickyConfigs == {Some(<<>>), Some([rate_limit |-> 2]), Some([timeout |-> 15])}

\* The HTTP server: every request passes the middleware, the tools call
\* get_client() with no argument, and cleanup() may run in between.
NextSticky ==
    \/ \E cfg \in StickyConfigs : Dispatch(cfg)
    \/ \E t \in Tasks : GetClient(t, None)
    \/ \E t \in Tasks : GetClientResume(t)
    \/ \E t \in Tasks : Cleanup(t)
    \/ \E t \in Tasks : CleanupResume(t)

SpecSticky == InitLife /\ [][NextSticky]_vars

\* C38: the recorded global override changes only to a non-empty
\* configuration, so a request without configuration parameters and
\* cleanup() leave it as it is; and get_client() without an explicit
\* override, once an override is recorded, returns the managed client only
\* if its fingerprint is that override, and otherwise builds (at once or
\* after the close it waits for) the client configure_client_from_env
\* builds for that override, whatever cleanup() did before.
C38_StickyOverride ==
    [][/\ current_config' # current_config => Truthy(current_config')
       /\ \A cfg \in StickyConfigs :
             (Dispatch(cfg) /\ ~Truthy(cfg)) => current_config' = current_config
       /\ \A t \in Tasks :
             /\ (Cleanup(t) \/ CleanupResume(t)) => current_config' = current_config
             /\ (GetClient(t, None) /\ Truthy(current_config)) =>
                   /\ (pc'[t] = "idle" /\ mclient' = mclient) =>
                         (mclient # 0 /\ client_config = current_config
                            /\ held'[t] = mclient)
                   /\ (pc'[t] = "idle" /\ mclient' # mclient) =>
                         /\ client'[mclient'] = ConfiguredClient(current_config)
                         /\ client_config' = current_config
                         /\ held'[t] = mclient'
                   /\ pc'[t] = "gc_closing" => gc'[t].eff = current_config]_vars

\* an override was recorded and a client built from it, cleanup() released
\* that client, and the next get_client() built its successor from the
\* same override and not from the process defaults
C38_Witness ==
    /\ built[1] /\ built[2] /\ ~built[3]
    /\ mclient = 2 /\ conn[2] = "open"
    /\ client_config = current_config /\ Truthy(current_config)
    /\ client[2] = ConfiguredClient(current_config)
    /\ client[2] # ConfiguredClient(None)
    /\ client[1] = client[2]
    /\ conn[1] = "none" /\ acloses[1] = 1
    /\ \A t \in Tasks : pc[t] = "idle"

\* ------------------------------------------------ one expiry predicate
\* the stored keys for which get at time current_time returns absent
\* because the entry is expired
C39_GetAbsentByExpiry(store, current_time) ==
    {k \in CacheKeys : store[k] # None /\ GetExpired(current_time, store[k][1])}

\* C39: at every moment get, cleanup_expired and stats agree on which
\* stored entries are expired, namely those with now > expires_at: the
\* keys cleanup_expired would remove are the keys get would report absent
\* because of expiry, and stats counts as many; cleanup_expired removes
\* those keys and returns the count stats reported; and a get at exactly
\* expires_at returns the value and removes nothing.
C39_OneExpiryPredicate ==
    /\ [](/\ \A k \in CacheKeys :
                cache[k] # None =>
                   /\ GetExpired(now, cache[k][1]) = (now > cache[k][1].expires_at)
                   /\ SweepExpired(now, cache[k][1]) = (now > cache[k][1].expires_at)
                   /\ StatsExpired(now, cache[k][1]) = (now > cache[k][1].expires_at)
          /\ ExpiredKeys(cache, now) = C39_GetAbsentByExpiry(cache, now)
          /\ StatsOf(cache, now).expired_entries =
                Cardinality(ExpiredKeys(cache, now)))
    /\ [][/\ CleanupExpired =>
                /\ cret'.ret = Some(StatsOf(cache, now).expired_entries)
                /\ \A k \in CacheKeys :
                      cache'[k] = IF k \in C39_GetAbsentByExpiry(cache, now)
                                  THEN None ELSE cache[k]
          /\ \A k \in CacheKeys :
                /\ (CacheGet(k) /\ cache[k] # None) =>
                      ((cret'.ret = None) <=> (k \in ExpiredKeys(cache, now)))
                /\ (CacheGet(k) /\ cache[k] # None
                      /\ now = cache[k][1].expires_at) =>
                      (cret'.ret = Some(cache[k][1].value) /\ cache' = cache)]_vars

\* an entry set with ttl 0 was read at the instant it was set, and its
\* value returned; the other key holds an entry that is expired
C39_Witness ==
    /\ cret.op = "get" /\ cret.ret # None
    /\ cache[cret.key] # None
    /\ cache[cret.key][1].expires_at = now
    /\ cache[cret.key][1].created_at = now
    /\ \E k \in CacheKeys : cache[k] # None /\ now > cache[k][1].expires_at

\* ------------------------------------------ deleting an expired entry
\* C40: delete(key) returns whether the key has a stored entry, whatever
\* the entry's expires_at, and leaves the key without entry; so for a
\* stored entry past its expiry delete returns true and removes it, while
\* a get of that key at the same instant returns absent.
C40_ExpiredDeletable ==
    [][\A k \in CacheKeys :
          /\ CacheDelete(k) =>
                /\ cret'.ret = Some(cache[k] # None)
                /\ cache' = [cache EXCEPT ![k] = None]
          /\ (CacheDelete(k) /\ cache[k] # None /\ now > cache[k][1].expires_at) =>
                /\ cret'.ret = Some(TRUE)
                /\ cache'[k] = None
          /\ (CacheGet(k) /\ cache[k] # None /\ now > cache[k][1].expires_at) =>
                cret'.ret = None]_vars

\* delete returned true for a key whose entry had expired before the
\* instant of the call, and the entry is gone
C40_Witness ==
    /\ cret.op = "delete" /\ cret.expired /\ cret.ret = Some(TRUE)
    /\ cache[cret.key] = None

====
